---- MODULE Spec2Model ----
(***************************************************************************)
(* Federation core of krnk0/microblog: the ActivityPub inbox handler       *)
(* (activitypub/inbox.ts), the key store it reads (activitypub/keys.ts,    *)
(* migrations/0003_create_account_keys.sql) and the followers/following    *)
(* collections (activitypub/collections.ts); further down the key store    *)
(* under overlapping provisioning with the actor document (actor.ts),      *)
(* WebFinger (webfinger.ts), signRequest, and the posts table with the     *)
(* outbox, featured and post handlers (outbox.ts, featured.ts, post.ts).   *)
(*                                                                         *)
(* Every inbound request is a process with its own copy of the handler's   *)
(* local variables; an action is the code that runs between two awaits on  *)
(* something outside the worker (the remote server, the D1 database).      *)
(***************************************************************************)
EXTENDS Integers, Sequences, FiniteSets, TLC

\* ---------------------------------------------------------------- bounds
\* Number of inbound requests handled concurrently.
MaxReq == 2
\* Last millisecond the clock (Date.now()) can reach.
MaxClock == 1

\* Number of provisioning runs (generateAndStoreKeyPair) that can overlap.
MaxProv == 2

Requests == 1..MaxReq
Provisioners == 1..MaxProv
\* The key pairs crypto.subtle.generateKey can draw.
KeyPairs == {"kp1"}

\* ------------------------------------------------------- program constants
API_DOMAIN == "mb-api.krnk.app"
USER_ID == "default"
\* `https://${API_DOMAIN}/api/activitypub/actor`
actorUrl == <<"https://", API_DOMAIN, "/api/activitypub/actor">>
\* Mutant: the key id is built on the site's domain.
keyId_siteDomain ==
  << <<"https://", "mb.krnk.app", "/api/activitypub/actor">>, "#main-key">>

\* `${actorUrl}#main-key`
keyId == <<actorUrl, "#main-key">>

\* ------------------------------------------------------------ JS values
Undefined == "undefined"
Null == [kind |-> "null"]
None == [kind |-> "none"]

\* URL strings the remote side uses, and what `new URL(s)` makes of them.
\* A string outside the table is not an absolute URL: `new URL` and `fetch`
\* throw a TypeError on it (this includes the coercion of undefined).
UrlTable ==
  [s \in {"https://r1.example/users/a", "https://r2.example/users/b",
          "https://r1.example/inbox", "https://r2.example/inbox?u=b"} |->
     CASE s = "https://r1.example/users/a" ->
            [host |-> "r1.example", pathname |-> "/users/a", search |-> ""]
       [] s = "https://r2.example/users/b" ->
            [host |-> "r2.example", pathname |-> "/users/b", search |-> ""]
       [] s = "https://r1.example/inbox" ->
            [host |-> "r1.example", pathname |-> "/inbox", search |-> ""]
       [] s = "https://r2.example/inbox?u=b" ->
            [host |-> "r2.example", pathname |-> "/inbox", search |-> "?u=b"]]

IsAbsoluteUrl(s) == s \in DOMAIN UrlTable

RemoteActors == {"https://r1.example/users/a", "https://r2.example/users/b"}
GoodInboxes == {"https://r1.example/inbox", "https://r2.example/inbox?u=b"}
\* Values the "inbox" member of a remote actor document can have.
InboxValues == GoodInboxes \cup {Undefined}

\* JSON objects an inbound body can parse to (interface Activity).
Activity(type, actor) ==
  [kind |-> "object", id |-> <<actor, "#follow">>, type |-> type, actor |-> actor,
   object |-> actorUrl]
Activities ==
  {Activity("Like", "https://r1.example/users/a")}
    \cup {Activity("Follow", a) : a \in RemoteActors \cup {Undefined}}

\* Request and response bodies: text that is not JSON, or the JSON value.
InvalidJson == [syntax |-> "invalid", value |-> None]
Json(v) == [syntax |-> "json", value |-> v]
Bodies == {InvalidJson, Json(Null)} \cup {Json(a) : a \in Activities}

\* Remote actor documents (interface Actor).
ActorDoc(inbox) == [kind |-> "object", type |-> "Person", inbox |-> inbox]

\* What the remote server can answer to the GET of activity.actor.
NetworkError == [net |-> "error", status |-> 0, body |-> InvalidJson]
HttpResponse(status, body) == [net |-> "ok", status |-> status, body |-> body]
ActorAnswers ==
  {NetworkError, HttpResponse(404, InvalidJson), HttpResponse(200, InvalidJson),
   HttpResponse(200, Json(Null))}
    \cup {HttpResponse(200, Json(ActorDoc(i))) : i \in InboxValues}
\* What the remote server can answer to the POST of the Accept.
DeliveryAnswers ==
  {NetworkError, HttpResponse(202, InvalidJson), HttpResponse(500, InvalidJson)}

\* Response.ok: status in the range 200-299.
ok(response) == response.status >= 200 /\ response.status <= 299

\* getPrivateKey's null, and the status of a request not yet answered.
NoKey == "null"
NoStatus == 0
NoAnswer == [net |-> "pending", status |-> 0, body |-> InvalidJson]

\* ----------------------------------------------------------------- state
VARIABLES
  accountKeys,  \* rows of table account_keys: [user_id, key]
  now,          \* the clock: the last value Date.now() returned
  req,          \* per inbound request: the locals of its handler
  gen,          \* per provisioning run: the locals of generateAndStoreKeyPair
  posts,        \* table posts: its rows and its AUTOINCREMENT sequence
  out,          \* the last call of a read-only handler or pure function
  media         \* R2 bucket MEDIA: its objects

vars == <<accountKeys, now, req, gen, posts, out, media>>

\* The locals of one handleInbox invocation before the request arrives.
NewRequest ==
  [pc |-> "idle", route |-> "none", body |-> InvalidJson, activity |-> None, followerActor |-> None,
   privateKey |-> NoKey, acceptActivity |-> None, calls |-> <<>>,
   status |-> NoStatus, response |-> None, threw |-> FALSE, trace |-> <<>>]

\* The locals of one generateAndStoreKeyPair call before it starts.
NewProvisioner == [pc |-> "idle", userId |-> USER_ID, keyPair |-> NoKey]

\* The empty posts table.
NoPosts == [rows |-> {}, seq |-> 0]

Init ==
  /\ accountKeys = {}
  /\ now = 0
  /\ req = [i \in Requests |-> NewRequest]
  /\ gen = [p \in Provisioners |-> NewProvisioner]
  /\ posts = NoPosts
  /\ out = None
  /\ media = {}

\* ------------------------------------------------------------ keys.ts
\* SELECT rsa_private_key FROM account_keys WHERE user_id = ?; null without
\* a row, else the imported signing key (named by its key pair).
getPrivateKey(db, userId) ==
  IF \E row \in db : row.user_id = userId
    THEN (CHOOSE row \in db : row.user_id = userId).key
    ELSE NoKey

\* SHA-256 of the body, kept symbolic: equal digests mean equal bodies.
digest(body) == <<"SHA-256=", body>>

\* Mutant: the signing string is built with the date line before the host
\* line, the headers parameter is left as it was.
signRequest_dateFirst(targetUrl, body, privateKey, kid, date) ==
  LET url == UrlTable[targetUrl]
      signatureString ==
        << <<"(request-target)", <<"post", url.pathname>> >>,
           <<"date", date>>,
           <<"host", url.host>>,
           <<"digest", digest(body)>> >>
  IN [Host |-> url.host,
      Date |-> date,
      ContentType |-> "application/activity+json",
      Digest |-> digest(body),
      Signature |-> [keyId |-> kid, algorithm |-> "rsa-sha256",
                     headers |-> <<"(request-target)", "host", "date", "digest">>,
                     signature |-> [key |-> privateKey, signed |-> signatureString]]]

\* signRequest: the headers of the signed POST.  The RSA signature is kept
\* symbolic as the pair (key, signed string).
signRequest(targetUrl, body, privateKey, kid, date) ==
  LET url == UrlTable[targetUrl]
      signedHeaders == <<"(request-target)", "host", "date", "digest">>
      signatureString ==
        << <<"(request-target)", <<"post", url.pathname>> >>,
           <<"host", url.host>>,
           <<"date", date>>,
           <<"digest", digest(body)>> >>
  IN [Host |-> url.host,
      Date |-> date,
      ContentType |-> "application/activity+json",
      Digest |-> digest(body),
      Signature |-> [keyId |-> kid, algorithm |-> "rsa-sha256",
                     headers |-> signedHeaders,
                     signature |-> [key |-> privateKey, signed |-> signatureString]]]

\* account_keys.user_id is UNIQUE: an INSERT for an owner who has a row
\* violates the constraint.
uniqueViolation(db, userId) == \E row \in db : row.user_id = userId

\* Mutant: the table is created without the UNIQUE constraint.
insertAccountKey_noConstraint(db, userId, k) ==
  db \cup {[user_id |-> userId, key |-> k]}

\* INSERT INTO account_keys (user_id, rsa_public_key, rsa_private_key): the
\* row holds both halves of key pair k; a failed INSERT changes nothing.
insertAccountKey(db, userId, k) ==
  IF uniqueViolation(db, userId)
    THEN db
    ELSE db \cup {[user_id |-> userId, key |-> k]}

\* generateAndStoreKeyPair run in one piece: generateKey, then the INSERT,
\* which fails (the call rejects) when the owner already has a row.
generateAndStoreKeyPair(userId, k) ==
  /\ accountKeys' = insertAccountKey(accountKeys, userId, k)
  /\ UNCHANGED <<now, req, gen, posts, out, media>>

\* ------------------------------------------------------------ inbox.ts
\* return new Response(body, { status })
Respond(rq, status, body) ==
  [rq EXCEPT !.pc = "done", !.status = status, !.response = body,
             !.trace = Append(@, "Responded")]

\* Response bodies that are plain text.
Text(s) == [kind |-> "text", text |-> s]

\* An exception no try block of handleInbox catches: the promise rejects.
Throw(rq) ==
  [rq EXCEPT !.pc = "done", !.threw = TRUE, !.trace = Append(@, "Threw")]

\* request.json() / response.json()
json(body) == [ok |-> body.syntax = "json", value |-> body.value]

\* if (activity.type !== 'Follow')
ignored(activity) == activity.type # "Follow"

\* Mutant: a failed fetch of the actor document is tried again.
fetchFailed_retry(rq) ==
  [rq EXCEPT !.pc = "awaitActor",
             !.calls = Append(@, [method |-> "GET", url |-> rq.activity.actor,
                                  headers |-> None, body |-> None,
                                  answer |-> [net |-> "pending", status |-> 0,
                                              body |-> InvalidJson]])]

\* Both exits of the first try block: non-2xx answer, or the catch.
fetchFailed(rq) == Respond(rq, 202, Text(""))

\* Mutant: a missing key is treated like a remote failure.
keyMissing_as202(rq) == Respond(rq, 202, Text(""))

\* if (!privateKey) return 500
keyMissing(rq) == Respond(rq, 500, Text(""))

\* Mutant: the Accept names the Follow by its id instead of embedding it.
acceptActivity_objectId(activity, t) ==
  [kind |-> "object", id |-> <<actorUrl, "#accept-", t>>, type |-> "Accept",
   actor |-> actorUrl, object |-> activity.id]

\* const acceptActivity = {...}; `t` is the value of Date.now().
acceptActivity(activity, t) ==
  [kind |-> "object", id |-> <<actorUrl, "#accept-", t>>, type |-> "Accept",
   actor |-> actorUrl, object |-> activity]

\* The URL the Accept is signed for and POSTed to.
deliveryTarget(followerActor) == followerActor.inbox

\* await fetch(activity.actor, ...): fetch rejects on a URL it cannot parse,
\* which the catch turns into 202; else the GET is on the wire.
fetchActor(rq) ==
  IF ~IsAbsoluteUrl(rq.activity.actor)
    THEN fetchFailed(rq)
    ELSE [rq EXCEPT !.pc = "awaitActor",
                    !.calls = Append(@, [method |-> "GET", url |-> rq.activity.actor,
                                         headers |-> None, body |-> None,
                                         answer |-> NoAnswer]),
                    !.trace = Append(@, "ActorFetch")]

\* Lines 63-83: from the arrival of the request to the first outbound call.
handleInbox_json(rq, body) ==
  LET r0 == [rq EXCEPT !.route = "inbox", !.body = body,
                       !.trace = Append(@, "Received")]
      parsed == json(body)
  IN IF ~parsed.ok
       THEN Respond(r0, 400, Text("Invalid JSON"))
       ELSE LET r1 == [r0 EXCEPT !.activity = parsed.value,
                                 !.trace = Append(@, "Parsed")]
            IN IF parsed.value = Null
                 THEN Throw(r1)
                 ELSE IF ignored(parsed.value)
                        THEN Respond(r1, 202, Text(""))
                        ELSE fetchActor(r1)

\* Lines 84-97: the answer to the GET, up to the call of getPrivateKey.
handleInbox_actorResponse(rq, answer) ==
  LET r0 == [rq EXCEPT !.calls[1].answer = answer]
      parsed == json(answer.body)
  IN IF answer.net = "error" \/ ~ok(answer) \/ ~parsed.ok
       THEN fetchFailed(r0)
       ELSE LET r1 == [r0 EXCEPT !.followerActor = parsed.value,
                                 !.trace = Append(@, "ActorResolved")]
            IN IF parsed.value = Null
                 THEN Throw(r1)
                 ELSE [r1 EXCEPT !.pc = "awaitKey"]

\* Mutant: the POST is started but not awaited before the handler returns.
sendAccept_notAwaited(rq, target, headers, acceptBody) ==
  Respond([rq EXCEPT !.calls = Append(@, [method |-> "POST", url |-> target,
                                          headers |-> headers, body |-> acceptBody,
                                          answer |-> NoAnswer]),
                     !.trace = Append(@, "DeliveryAttempt")], 202, Text(""))

\* Lines 126-131: the POST of the signed Accept.
sendAccept(rq, target, headers, acceptBody) ==
  [rq EXCEPT !.pc = "awaitDelivery",
             !.calls = Append(@, [method |-> "POST", url |-> target,
                                  headers |-> headers, body |-> acceptBody,
                                  answer |-> NoAnswer]),
             !.trace = Append(@, "DeliveryAttempt")]

\* Lines 97-131: the result of getPrivateKey, up to the POST of the Accept.
handleInbox_privateKey(rq, privateKey, t) ==
  LET r0 == [rq EXCEPT !.privateKey = privateKey, !.trace = Append(@, "KeyLoad")]
  IN IF privateKey = NoKey
       THEN keyMissing(r0)
       ELSE LET accept == acceptActivity(rq.activity, t)
                target == deliveryTarget(rq.followerActor)
                r1 == [r0 EXCEPT !.acceptActivity = accept]
            IN IF ~IsAbsoluteUrl(target)
                 THEN Throw(r1)
                 ELSE sendAccept(r1, target,
                                 signRequest(target, accept, privateKey, keyId, t),
                                 accept)

\* Lines 133-142: the answer to the POST (or its failure), then 202.
handleInbox_acceptResponse(rq, answer) ==
  Respond([rq EXCEPT !.calls[2].answer = answer,
                     !.trace = Append(@, "DeliveryDone")], 202, Text(""))

\* ------------------------------------------------------ collections.ts
handleFollowing ==
  [kind |-> "object", id |-> <<"https://", API_DOMAIN, "/api/activitypub/following">>,
   type |-> "OrderedCollection", totalItems |-> 0, orderedItems |-> <<>>]

\* Mutant: the collection lists the senders whose Accept was delivered.
handleFollowers_tracking ==
  LET delivered == {i \in Requests :
                      /\ Len(req[i].calls) >= 2
                      /\ req[i].calls[2].answer.net = "ok"
                      /\ ok(req[i].calls[2].answer)}
  IN [kind |-> "object",
      id |-> <<"https://", API_DOMAIN, "/api/activitypub/followers">>,
      type |-> "OrderedCollection", totalItems |-> Cardinality(delivered),
      orderedItems |-> <<>>]

handleFollowers ==
  [kind |-> "object", id |-> <<"https://", API_DOMAIN, "/api/activitypub/followers">>,
   type |-> "OrderedCollection", totalItems |-> 0, orderedItems |-> <<>>]

\* --------------------------------------------------------------- actions
\* A request arrives at POST /api/activitypub/inbox and its body is read.
InboxRequest(i, body) ==
  /\ req[i].pc = "idle"
  /\ req' = [req EXCEPT ![i] = handleInbox_json(@, body)]
  /\ UNCHANGED <<accountKeys, now, gen, posts, out, media>>

\* The remote server answers the GET of the actor document.
ActorAnswer(i, answer) ==
  /\ req[i].pc = "awaitActor"
  /\ req' = [req EXCEPT ![i] = handleInbox_actorResponse(@, answer)]
  /\ UNCHANGED <<accountKeys, now, gen, posts, out, media>>

\* The database answers getPrivateKey; the handler goes on to read the
\* clock, which shows t: the clock never runs backwards.
KeyLoaded(i, t) ==
  /\ req[i].pc = "awaitKey"
  /\ t >= now
  /\ LET privateKey == getPrivateKey(accountKeys, USER_ID)
     IN /\ req' = [req EXCEPT ![i] = handleInbox_privateKey(@, privateKey, t)]
        /\ now' = IF privateKey = NoKey THEN now ELSE t
  /\ UNCHANGED <<accountKeys, gen, posts, out, media>>

\* The remote server answers the POST of the Accept.
DeliveryAnswer(i, answer) ==
  /\ req[i].pc = "awaitDelivery"
  /\ req' = [req EXCEPT ![i] = handleInbox_acceptResponse(@, answer)]
  /\ UNCHANGED <<accountKeys, now, gen, posts, out, media>>

\* GET /api/activitypub/followers
FollowersRequest(i) ==
  /\ req[i].pc = "idle"
  /\ req' = [req EXCEPT ![i] =
               Respond([@ EXCEPT !.route = "followers", !.trace = <<"Received">>],
                       200, handleFollowers)]
  /\ UNCHANGED <<accountKeys, now, gen, posts, out, media>>

\* GET /api/activitypub/following
FollowingRequest(i) ==
  /\ req[i].pc = "idle"
  /\ req' = [req EXCEPT ![i] =
               Respond([@ EXCEPT !.route = "following", !.trace = <<"Received">>],
                       200, handleFollowing)]
  /\ UNCHANGED <<accountKeys, now, gen, posts, out, media>>

\* The provisioning script runs.
Provision ==
  \E k \in KeyPairs : generateAndStoreKeyPair(USER_ID, k)

Next ==
  \/ \E i \in Requests, body \in Bodies : InboxRequest(i, body)
  \/ \E i \in Requests, answer \in ActorAnswers : ActorAnswer(i, answer)
  \/ \E i \in Requests, t \in 0..MaxClock : KeyLoaded(i, t)
  \/ \E i \in Requests, answer \in DeliveryAnswers : DeliveryAnswer(i, answer)
  \/ \E i \in Requests : FollowersRequest(i)
  \/ \E i \in Requests : FollowingRequest(i)
  \/ Provision

Spec == Init /\ [][Next]_vars

\* The worker's runtime resumes a handler whose awaited database query has
\* settled; nothing makes a remote server answer, so the two remote answers
\* carry no fairness.
FairSpec ==
  Spec /\ \A i \in Requests : WF_vars(\E t \in 0..MaxClock : KeyLoaded(i, t))

\* ------------------------------------------------------------ vocabulary
IsInbox(i) == req[i].route = "inbox"
Done(i) == req[i].pc = "done"
Events(i) == {req[i].trace[k] : k \in 1..Len(req[i].trace)}
\* The body of request i parsed as JSON.
ParsedOk(i) == IsInbox(i) /\ req[i].body.syntax = "json"
\* The body of request i is a JSON object whose type is "Follow".
IsFollow(i) ==
  /\ ParsedOk(i)
  /\ req[i].body.value.kind = "object"
  /\ req[i].body.value.type = "Follow"
\* The call of request i with the given method, if it was made.
Made(i, method) == {k \in 1..Len(req[i].calls) : req[i].calls[k].method = method}
\* The GET of the actor document of request i was not made (fetch rejected
\* the URL) or ended in a network error, a non-2xx answer or a non-JSON body.
FetchFailed(i) ==
  /\ IsFollow(i)
  /\ \/ Done(i) /\ req[i].calls = <<>>
     \/ /\ Len(req[i].calls) >= 1
        /\ LET a == req[i].calls[1].answer
           IN \/ a.net = "error"
              \/ a.net = "ok" /\ ~ok(a)
              \/ a.net = "ok" /\ ok(a) /\ a.body.syntax # "json"
\* The GET of request i was answered 2xx with a JSON body.
FetchSucceeded(i) ==
  /\ Len(req[i].calls) >= 1
  /\ LET a == req[i].calls[1].answer
     IN a.net = "ok" /\ ok(a) /\ a.body.syntax = "json"
\* The POST of request i was answered, or failed.
DeliveryFailed(i) ==
  /\ Len(req[i].calls) >= 2
  /\ LET a == req[i].calls[2].answer
     IN a.net = "error" \/ (a.net = "ok" /\ ~ok(a))
DeliverySucceeded(i) ==
  /\ Len(req[i].calls) >= 2
  /\ LET a == req[i].calls[2].answer IN a.net = "ok" /\ ok(a)
\* Request i looked the key up and found no row.
KeyAbsent(i) == "KeyLoad" \in Events(i) /\ req[i].privateKey = NoKey
KeyPresent(i) == "KeyLoad" \in Events(i) /\ req[i].privateKey # NoKey

\* ---------------------------------------------------------------- claims
\* C1: every handleInbox invocation ends in exactly one response with status
\* 202, 400 or 500 and never in an uncaught exception; 400 exactly when the
\* body is not JSON, 500 only when the signing key is absent, 202 otherwise.
C1_AlwaysOneResponse ==
  \A i \in Requests :
    IsInbox(i) /\ Done(i) =>
      /\ ~req[i].threw
      /\ req[i].status \in {202, 400, 500}
      /\ (req[i].status = 400) <=> ~ParsedOk(i)
      /\ (req[i].status = 500) => KeyAbsent(i)
      /\ (ParsedOk(i) /\ ~KeyAbsent(i)) => req[i].status = 202

\* C2: a Follow handled while the signing key exists (the row is there and
\* the handler did not find it missing) is answered 202 whatever the remote
\* side does (fetch error, non-2xx, non-JSON or unusable actor document,
\* delivery error).
C2_FollowAlways202 ==
  \A i \in Requests :
    IsFollow(i) /\ Done(i) /\ accountKeys # {} /\ ~KeyAbsent(i) =>
      ~req[i].threw /\ req[i].status = 202

\* C3 as stated: a Follow received while the account has no AccountKey row
\* is answered 500, whether the actor fetch succeeds or fails.  (Rows are
\* never deleted, so an empty table now was empty during the whole request.)
C3_NoKeyAlways500 ==
  \A i \in Requests :
    IsFollow(i) /\ Done(i) /\ accountKeys = {} => req[i].status = 500

\* C3 amended: a Follow whose handling reaches the key lookup while the
\* account has no AccountKey row is answered 500 and sends no Accept; the
\* lookup is made only after the actor document was fetched and parsed, so a
\* Follow whose actor fetch failed is answered 202 without any lookup.
C3_NoKey500AfterFetch ==
  \A i \in Requests :
    IsInbox(i) =>
      /\ KeyAbsent(i) =>
           /\ Done(i) /\ req[i].status = 500 /\ ~req[i].threw
           /\ Made(i, "POST") = {}
      /\ "KeyLoad" \in Events(i) => IsFollow(i) /\ FetchSucceeded(i)
      /\ FetchFailed(i) =>
           /\ "KeyLoad" \notin Events(i)
           /\ Done(i) => req[i].status = 202

\* A Follow found no key row after a successful fetch and was answered 500.
C3_Witness ==
  \E i \in Requests :
    IsFollow(i) /\ Done(i) /\ FetchSucceeded(i) /\ KeyAbsent(i) /\ req[i].status = 500

\* C4: a parsed body whose type is not "Follow" is answered 202 with no
\* outbound call, no key lookup and no write to the key store.
C4_OtherTypesIgnored ==
  \A i \in Requests :
    ParsedOk(i) /\ ~IsFollow(i) /\ Done(i) =>
      /\ req[i].status = 202 /\ ~req[i].threw
      /\ req[i].calls = <<>>
      /\ "KeyLoad" \notin Events(i)

\* C8: any two Accept activities, also of concurrent handlers, differ in id.
C8_AcceptIdsUnique ==
  \A i, j \in Requests :
    (i # j /\ req[i].acceptActivity # None /\ req[j].acceptActivity # None) =>
      req[i].acceptActivity.id # req[j].acceptActivity.id

\* Any step of the handler of request i.
HandlerStep(i) ==
  \/ \E body \in Bodies : InboxRequest(i, body)
  \/ \E answer \in ActorAnswers : ActorAnswer(i, answer)
  \/ \E t \in 0..MaxClock : KeyLoaded(i, t)
  \/ \E answer \in DeliveryAnswers : DeliveryAnswer(i, answer)

\* C5: at-most-once delivery: per Follow at most one GET of the actor
\* document and at most one POST of an Accept, in that order; after a failed
\* GET or a failed POST the handler has returned and takes no further step.
C5_AtMostOnce ==
  \A i \in Requests :
    IsInbox(i) =>
      /\ Cardinality(Made(i, "GET")) <= 1
      /\ Cardinality(Made(i, "POST")) <= 1
      /\ Made(i, "GET") \subseteq {1}
      /\ Made(i, "POST") \subseteq {2}
      /\ FetchFailed(i) => Done(i) /\ Made(i, "POST") = {}
      /\ DeliveryFailed(i) => Done(i)
      /\ Done(i) => ~ENABLED HandlerStep(i)

\* A Follow whose actor fetch failed and one whose delivery failed, both
\* returned.
C5_Witness ==
  \E i, j \in Requests :
    /\ FetchFailed(i) /\ Len(req[i].calls) = 1 /\ Done(i)
    /\ DeliveryFailed(j) /\ Done(j)

\* Position of a step in the order Received, Parsed, actor fetch, key load,
\* delivery attempt, response.
Rank(event) ==
  CASE event = "Received" -> 1
    [] event = "Parsed" -> 2
    [] event = "ActorFetch" -> 3
    [] event = "ActorResolved" -> 4
    [] event = "KeyLoad" -> 5
    [] event = "DeliveryAttempt" -> 6
    [] event = "DeliveryDone" -> 7
    [] event = "Responded" -> 8
    [] event = "Threw" -> 8

\* C6: the steps of every run follow the order Received, Parsed, actor
\* fetch, key load, delivery attempt, response; the Accept is POSTed only
\* after the actor document was fetched and the key loaded, and the response
\* comes only after the POST was answered or failed.
C6_StepOrder ==
  \A i \in Requests :
    IsInbox(i) =>
      /\ \A k \in 1..(Len(req[i].trace) - 1) :
           Rank(req[i].trace[k]) < Rank(req[i].trace[k + 1])
      /\ Made(i, "POST") # {} =>
           /\ FetchSucceeded(i) /\ KeyPresent(i)
           /\ {"ActorResolved", "KeyLoad", "DeliveryAttempt"} \subseteq Events(i)
      /\ (Made(i, "POST") # {} /\ req[i].status # NoStatus) =>
           /\ req[i].calls[2].answer # NoAnswer
           /\ "DeliveryDone" \in Events(i)

\* A Follow went through every step and was answered.
C6_Witness ==
  \E i \in Requests :
    /\ req[i].trace = <<"Received", "Parsed", "ActorFetch", "ActorResolved",
                        "KeyLoad", "DeliveryAttempt", "DeliveryDone", "Responded">>
    /\ req[i].status = 202

\* C9: the Accept that is POSTed has type Accept, the local actor, the
\* received Follow unchanged as object, and goes to the inbox named in the
\* document fetched from that Follow's activity.actor, also when several
\* Follows are handled concurrently.
C9_AcceptMatchesFollow ==
  \A i \in Requests :
    \A k \in Made(i, "POST") :
      LET post == req[i].calls[k]
          get == req[i].calls[1]
      IN /\ IsFollow(i)
         /\ post.body.type = "Accept"
         /\ post.body.actor = actorUrl
         /\ post.body.object = req[i].body.value
         /\ get.method = "GET"
         /\ get.url = req[i].body.value.actor
         /\ FetchSucceeded(i)
         /\ post.url = get.answer.body.value.inbox

\* Two Follows of different senders, whose actor documents name different
\* inboxes, each had an Accept POSTed while the other was still in flight.
C9_Witness ==
  \E i, j \in Requests :
    /\ i # j
    /\ req[i].pc = "awaitDelivery" /\ req[j].pc = "awaitDelivery"
    /\ req[i].body.value.actor # req[j].body.value.actor
    /\ req[i].calls[2].url # req[j].calls[2].url

\* C10: the followers and following collections are always an
\* OrderedCollection with totalItems 0 and no items, also after Follows were
\* accepted and their Accept delivered; handling a Follow stores nothing
\* but what the provisioning wrote.
C10_CollectionsEmpty ==
  /\ \A i \in Requests :
       (req[i].route \in {"followers", "following"} /\ Done(i)) =>
         /\ req[i].status = 200
         /\ req[i].response.type = "OrderedCollection"
         /\ req[i].response.totalItems = 0
         /\ req[i].response.orderedItems = <<>>
  /\ \A row \in accountKeys : row.user_id = USER_ID /\ row.key \in KeyPairs

\* A Follow was accepted and its Accept delivered, and the followers
\* collection was served.
C10_Witness ==
  \E i, j \in Requests :
    /\ IsFollow(i) /\ Done(i) /\ DeliverySucceeded(i)
    /\ req[j].route = "followers" /\ Done(j)

\* C7: every invocation of handleInbox eventually returns a response.
C7_EventuallyResponds ==
  \A i \in Requests : IsInbox(i) ~> Done(i)

\* ====================================================================
\* The key store under overlapping provisioning runs, and the actor
\* document built from it (activitypub/keys.ts, activitypub/actor.ts).
\* ====================================================================
\* The key pairs generateKey can draw when provisioning runs overlap.
GeneratedKeyPairs == KeyPairs \cup {"kp2"}
\* The owners a provisioning run can be started for.
Owners == {USER_ID, "other"}

\* const DOMAIN (DOMAIN is a reserved word here).
SITE_DOMAIN == "mb.krnk.app"
USERNAME == "default"
\* generateKey: modulusLength of the RSA keys.
modulusLength == 2048
\* jwkToPem: characters per line of the PEM body.
PemLineWidth == 64

\* The public half of the row's key pair, as JSON.parse(rsa_public_key).
publicJwk(row) == [kty |-> "RSA", pair |-> row.key, private |-> FALSE]

\* exportKey('spki', key): the DER SubjectPublicKeyInfo of an RSA key with
\* exponent 65537; its bytes are kept symbolic, its length is not.
exportSpki(jwk) == [pair |-> jwk.pair, byteLength |-> modulusLength \div 8 + 38]

\* btoa(String.fromCharCode(...bytes)): four characters per three bytes.
\* Character i of the encoding of key pair k is the symbol <<k, i>>.
arrayBufferToBase64(buffer) ==
  [i \in 1..(4 * ((buffer.byteLength + 2) \div 3)) |-> <<buffer.pair, i>>]

\* Mutant: the line pattern is /.{64}/g, which drops a short last line.
jwkToPem_fullLinesOnly(jwk) ==
  LET base64 == [i \in 1..(4 * ((modulusLength \div 8 + 38 + 2) \div 3))
                   |-> <<jwk.pair, i>>]
      lines == [j \in 1..(Len(base64) \div 64) |->
                  SubSeq(base64, (j - 1) * 64 + 1, j * 64)]
  IN [kind |-> "pem", begin |-> "-----BEGIN PUBLIC KEY-----",
      lines |-> lines, end |-> "-----END PUBLIC KEY-----"]

\* jwkToPem: import, export as SPKI, base64, lines of at most 64 characters
\* (base64.match(/.{1,64}/g)) between the BEGIN and END lines.
jwkToPem(jwk) ==
  LET base64 == arrayBufferToBase64(exportSpki(jwk))
      n == Len(base64)
      lines == [j \in 1..((n + PemLineWidth - 1) \div PemLineWidth) |->
                  SubSeq(base64, (j - 1) * PemLineWidth + 1,
                         IF j * PemLineWidth < n THEN j * PemLineWidth ELSE n)]
  IN [kind |-> "pem", begin |-> "-----BEGIN PUBLIC KEY-----",
      lines |-> lines, end |-> "-----END PUBLIC KEY-----"]

\* getPublicKeyPem: null without a row, else the PEM of the stored public
\* JWK.
getPublicKeyPem(db, userId) ==
  IF \E row \in db : row.user_id = userId
    THEN jwkToPem(publicJwk(CHOOSE row \in db : row.user_id = userId))
    ELSE Null

\* A Response with a JSON body.
JsonResponse(status, contentType, body) ==
  [status |-> status, contentType |-> contentType, body |-> body]

\* Mutant: an actor without a key is answered as not found.
handleActor_notFound(db) ==
  IF \E row \in db : row.user_id = "default"
    THEN [status |-> 200, contentType |-> "application/activity+json",
          body |-> [id |-> <<"https://", "mb-api.krnk.app", "/api/activitypub/actor">>,
                    type |-> "Person",
                    publicKey |->
                      [id |-> << <<"https://", "mb-api.krnk.app", "/api/activitypub/actor">>,
                                 "#main-key">>,
                       owner |-> <<"https://", "mb-api.krnk.app", "/api/activitypub/actor">>]]]
    ELSE [status |-> 404, contentType |-> "application/json",
          body |-> [error |-> "Not found"]]

\* handleActor: 500 when getPublicKeyPem finds nothing, else the actor
\* document with the key.
handleActor(db) ==
  LET publicKeyPem == getPublicKeyPem(db, USERNAME)
  IN IF publicKeyPem = Null
       THEN JsonResponse(500, "application/json",
                         [error |-> "Actor not configured"])
       ELSE JsonResponse(200, "application/activity+json",
              [id |-> actorUrl,
               type |-> "Person",
               preferredUsername |-> USERNAME,
               name |-> "Microblog User",
               summary |-> "Personal microblog powered by Cloudflare Workers",
               url |-> <<"https://", SITE_DOMAIN>>,
               inbox |-> <<"https://", API_DOMAIN, "/api/activitypub/inbox">>,
               outbox |-> <<"https://", API_DOMAIN, "/api/activitypub/outbox">>,
               followers |-> <<"https://", API_DOMAIN, "/api/activitypub/followers">>,
               following |-> <<"https://", API_DOMAIN, "/api/activitypub/following">>,
               publicKey |-> [id |-> <<actorUrl, "#main-key">>,
                              owner |-> actorUrl,
                              publicKeyPem |-> publicKeyPem]])

\* generateAndStoreKeyPair up to its INSERT: the key pair is generated and
\* exported while other runs go on.
GenerateKey(p, userId, k) ==
  /\ gen[p].pc = "idle"
  /\ gen' = [gen EXCEPT ![p] = [pc |-> "insert", userId |-> userId, keyPair |-> k]]
  /\ UNCHANGED <<accountKeys, now, req, posts, out, media>>

\* The INSERT of generateAndStoreKeyPair: one statement, atomic in D1.  On
\* a constraint violation run() rejects and the call ends with the error.
StoreKey(p) ==
  /\ gen[p].pc = "insert"
  /\ accountKeys' = insertAccountKey(accountKeys, gen[p].userId, gen[p].keyPair)
  /\ gen' = [gen EXCEPT ![p].pc =
               IF accountKeys' = accountKeys THEN "rejected" ELSE "stored"]
  /\ UNCHANGED <<now, req, posts, out, media>>

\* Mutant: an actor request that finds no key provisions one.
ActorRequest_autoProvision ==
  /\ accountKeys' = insertAccountKey(accountKeys, "default", "kp1")
  /\ out' = [route |-> "actor", store |-> accountKeys',
             response |-> handleActor(accountKeys')]
  /\ UNCHANGED <<now, req, gen, posts, media>>

\* GET /api/activitypub/actor.  The answer is kept with the table it read.
ActorRequest ==
  /\ out' = [route |-> "actor", store |-> accountKeys,
             response |-> handleActor(accountKeys)]
  /\ UNCHANGED <<accountKeys, now, req, gen, posts, media>>

\* Provisioning runs overlap with each other and with actor requests.
KeyNext ==
  \/ \E p \in Provisioners, userId \in Owners, k \in GeneratedKeyPairs :
       GenerateKey(p, userId, k)
  \/ \E p \in Provisioners : StoreKey(p)
  \/ ActorRequest

KeySpec == Init /\ [][KeyNext]_vars

\* ---- vocabulary of the key-store claims
HasRow(db, userId) == \E row \in db : row.user_id = userId
Stored(p) == gen[p].pc = "stored"
Rejected(p) == gen[p].pc = "rejected"
ActorAnswered == out # None /\ out.route = "actor"

\* crypto.subtle.sign(RSASSA-PKCS1-v1_5, key, data), symbolic as in
\* signRequest: the pair (key, signed data).
sign(privateKey, data) == [key |-> privateKey, signed |-> data]

\* What a remote server does with the actor's publicKeyPem: join the lines
\* between BEGIN and END, decode the base64 and import the SPKI.
RECURSIVE joinLines(_)
joinLines(lines) ==
  IF Len(lines) = 0 THEN <<>> ELSE Head(lines) \o joinLines(Tail(lines))

pemDecode(pem) ==
  LET text == joinLines(pem.lines)
      fits(k) == text = arrayBufferToBase64(
                          exportSpki([kty |-> "RSA", pair |-> k, private |-> FALSE]))
  IN IF \E k \in GeneratedKeyPairs : fits(k)
       THEN [valid |-> TRUE, pair |-> CHOOSE k \in GeneratedKeyPairs : fits(k)]
       ELSE [valid |-> FALSE, pair |-> NoKey]

\* RSASSA-PKCS1-v1_5 verification: the signature was made over this data
\* with the private half of the public key's pair.
verify(publicKey, data, signature) ==
  /\ publicKey.valid
  /\ signature.key = publicKey.pair
  /\ signature.signed = data

\* The payloads signed in the claims: the signing strings of signRequest.
Payloads ==
  {signRequest(target, acceptActivity(a, 0), k, keyId, 0).Signature.signature.signed :
     target \in GoodInboxes, a \in Activities, k \in GeneratedKeyPairs}

\* C11: in every reachable state, under every interleaving of overlapping
\* generateAndStoreKeyPair calls, account_keys holds at most one row per
\* owner; a call for an owner who already has a row is rejected, and every
\* row a call stored is still there with the keys that call generated.
C11_OneRowPerOwner ==
  /\ \A r1, r2 \in accountKeys : r1.user_id = r2.user_id => r1 = r2
  /\ \A p \in Provisioners :
       /\ Stored(p) => [user_id |-> gen[p].userId, key |-> gen[p].keyPair] \in accountKeys
       /\ Rejected(p) =>
            \E row \in accountKeys :
              /\ row.user_id = gen[p].userId
              /\ \E q \in Provisioners \ {p} :
                   /\ Stored(q)
                   /\ gen[q].userId = row.user_id
                   /\ gen[q].keyPair = row.key

\* Two runs for one owner drew different key pairs; one stored its row, the
\* other was rejected.
C11_Witness ==
  \E p, q \in Provisioners :
    /\ Stored(p) /\ Rejected(q)
    /\ gen[p].userId = gen[q].userId
    /\ gen[p].keyPair # gen[q].keyPair

\* C13: handleActor answers 200 with the actor document exactly when the
\* owner has a row; without one it answers 500 (never 404) with an error
\* body.  In the document publicKey.id is the actor id followed by
\* "#main-key" and publicKey.owner is the actor id.
C13_ActorIffKey ==
  ActorAnswered =>
    LET r == out.response
    IN IF HasRow(out.store, USERNAME)
         THEN /\ r.status = 200
              /\ r.body.publicKey.id = <<r.body.id, "#main-key">>
              /\ r.body.publicKey.owner = r.body.id
         ELSE /\ r.status = 500
              /\ DOMAIN r.body = {"error"}

\* Both answers have been given: 500 before the row, 200 after it.
C13_Witness ==
  /\ ActorAnswered
  /\ out.response.status = 200
  /\ \E p \in Provisioners : Stored(p) /\ gen[p].userId = USERNAME

\* The actor was asked for while another owner had a row and this one none.
C13_WitnessNoKey ==
  /\ ActorAnswered
  /\ out.response.status = 500
  /\ out.store # {}

\* C18: for every stored key pair and every payload, the signature made
\* with the key getPrivateKey returns verifies against the public key
\* decoded from the PEM getPublicKeyPem returns.
C18_SignVerifyRoundTrip ==
  \A row \in accountKeys, data \in Payloads :
    verify(pemDecode(getPublicKeyPem(accountKeys, row.user_id)),
           data,
           sign(getPrivateKey(accountKeys, row.user_id), data))

\* Rows of both key pairs are stored.
C18_Witness ==
  \A k \in GeneratedKeyPairs : \E row \in accountKeys : row.key = k

\* ====================================================================
\* WebFinger (activitypub/webfinger.ts).
\* ====================================================================
\* A string of the query is the sequence of its pieces.  No piece is a
\* prefix of another, so two sequences are equal exactly when the strings
\* are; "acct:" is five characters, "@" is one, "x" is any other text.
Pieces == {"acct:", "default", "@", "mb.krnk.app", "mb-api.krnk.app", "x"}
\* Longest resource value, in pieces.
MaxPieces == 6
Strings == UNION {[1..n -> Pieces] : n \in 0..MaxPieces}

\* url.searchParams: the set of (name, value) pairs of the query.
SearchParams == {{}} \cup {{<<"resource", r>>} : r \in Strings}

ALLOWED_DOMAINS == {<<SITE_DOMAIN>>, <<"mb-api.krnk.app">>}

\* String.prototype.startsWith for a prefix that is one piece.
startsWith(s, piece) == Len(s) > 0 /\ s[1] = piece

\* String.prototype.split(separator): the parts between the separators.
RECURSIVE split(_, _)
split(s, separator) ==
  IF \E i \in 1..Len(s) : s[i] = separator
    THEN LET i == CHOOSE j \in 1..Len(s) :
                    /\ s[j] = separator
                    /\ \A l \in 1..(j - 1) : s[l] # separator
         IN <<SubSeq(s, 1, i - 1)>> \o split(SubSeq(s, i + 1, Len(s)), separator)
    ELSE <<s>>

\* const [user, domain] = acct.split('@'): the first two parts, domain
\* undefined when there is one part only; further parts are dropped.
\* ALLOWED_DOMAINS.includes(domain) && user === USERNAME.
accountKnown(acct) ==
  LET parts == split(acct, "@")
      user == parts[1]
  IN /\ Len(parts) >= 2
     /\ parts[2] \in ALLOWED_DOMAINS
     /\ user = <<USERNAME>>

\* handleWebFinger.
handleWebFinger(searchParams) ==
  IF \/ ~\E q \in searchParams : q[1] = "resource"
     \/ \E q \in searchParams : q[1] = "resource" /\ q[2] = <<>>
    THEN JsonResponse(400, "application/json",
                      [error |-> "Missing resource parameter"])
    ELSE
      LET resource == (CHOOSE q \in searchParams : q[1] = "resource")[2]
      IN IF ~startsWith(resource, "acct:")
           THEN JsonResponse(400, "application/json",
                             [error |-> "Invalid resource format"])
           ELSE IF ~accountKnown(Tail(resource))
             THEN JsonResponse(404, "application/json",
                               [error |-> "User not found"])
             ELSE JsonResponse(200, "application/jrd+json",
                    [subject |-> resource,
                     aliases |-> << <<"https://", SITE_DOMAIN, "/api/activitypub/actor">> >>,
                     links |->
                       << [rel |-> "self", type |-> "application/activity+json",
                           href |-> <<"https://", SITE_DOMAIN, "/api/activitypub/actor">>],
                          [rel |-> "http://webfinger.net/rel/profile-page",
                           type |-> "text/html",
                           href |-> <<"https://", SITE_DOMAIN>>] >>])

\* GET /.well-known/webfinger with the query held in out.
WebFingerRequest ==
  /\ out # None /\ out.route = "webfinger" /\ out.response = None
  /\ out' = [out EXCEPT !.response = handleWebFinger(out.searchParams)]
  /\ UNCHANGED <<accountKeys, now, req, gen, posts, media>>

\* A query arrives at /.well-known/webfinger.
WebFingerArrives(searchParams) ==
  [route |-> "webfinger", searchParams |-> searchParams, response |-> None]

FingerInit ==
  /\ accountKeys = {}
  /\ now = 0
  /\ req = [i \in Requests |-> NewRequest]
  /\ gen = [p \in Provisioners |-> NewProvisioner]
  /\ posts = NoPosts
  /\ out \in {WebFingerArrives(searchParams) : searchParams \in SearchParams}
  /\ media = {}

FingerNext == WebFingerRequest

FingerSpec == FingerInit /\ [][FingerNext]_vars

\* ---- vocabulary of the WebFinger claims
FingerAnswered == out # None /\ out.route = "webfinger" /\ out.response # None
HasResource == \E q \in out.searchParams : q[1] = "resource"
Resource == (CHOOSE q \in out.searchParams : q[1] = "resource")[2]
\* The link of the answer whose rel is "self".
SelfLink(jrd) == jrd.links[CHOOSE n \in 1..Len(jrd.links) : jrd.links[n].rel = "self"]
\* "acct:" + username + one "@" + a domain of the allow-list.
KnownAccounts == {<<"acct:", USERNAME, "@">> \o domain : domain \in ALLOWED_DOMAINS}
\* The value after "acct:" has the shape user@domain: a non-empty user, an
\* "@" and a non-empty domain.
UserAtDomain(acct) ==
  \E i \in 2..(Len(acct) - 1) : acct[i] = "@"

\* C14: for every acct:user@domain on an allowed domain that
\* handleWebFinger accepts, the href of the self link is the id of the
\* actor document handleActor returns.
C14_SelfLinkIsActorId ==
  (FingerAnswered /\ out.response.status = 200) =>
    \A k \in GeneratedKeyPairs :
      SelfLink(out.response.body).href =
        handleActor({[user_id |-> USERNAME, key |-> k]}).body.id

\* C15: handleWebFinger answers 200 exactly when the resource is "acct:",
\* the username, one "@" and a domain of the allow-list; every other acct:
\* value is answered 404.
C15_OnlyKnownAccount ==
  (FingerAnswered /\ HasResource /\ startsWith(Resource, "acct:")) =>
    IF Resource \in KnownAccounts
      THEN out.response.status = 200
      ELSE out.response.status = 404

\* C16: handleWebFinger answers 400 when the resource is missing, does not
\* start with "acct:" or has no user@domain after the scheme; such input
\* is never answered 404 or 200.
C16_MalformedIs400 ==
  (/\ FingerAnswered
   /\ \/ ~HasResource
      \/ ~startsWith(Resource, "acct:")
      \/ ~UserAtDomain(Tail(Resource))) =>
    out.response.status = 400

\* ====================================================================
\* signRequest as a function of its arguments and the clock.
\* ====================================================================
\* The bodies signed: Accept activities as handleInbox builds them.
SignedBodies == {acceptActivity(a, t) : a \in Activities, t \in 0..MaxClock}

\* signRequest is called with (targetUrl, body, privateKey, keyId).
SignRequestArrives(targetUrl, body, privateKey, kid) ==
  [route |-> "signRequest", targetUrl |-> targetUrl, body |-> body,
   privateKey |-> privateKey, keyId |-> kid, headers |-> None]

\* The call runs; new Date() shows t.
SignRequestCall(t) ==
  /\ out # None /\ out.route = "signRequest" /\ out.headers = None
  /\ t >= now
  /\ out' = [out EXCEPT !.headers =
               signRequest(out.targetUrl, out.body, out.privateKey, out.keyId, t)]
  /\ now' = t
  /\ UNCHANGED <<accountKeys, req, gen, posts, media>>

SignInit ==
  /\ accountKeys = {}
  /\ now = 0
  /\ req = [i \in Requests |-> NewRequest]
  /\ gen = [p \in Provisioners |-> NewProvisioner]
  /\ posts = NoPosts
  /\ out \in {SignRequestArrives(targetUrl, body, privateKey, keyId) :
                targetUrl \in DOMAIN UrlTable, body \in SignedBodies,
                privateKey \in GeneratedKeyPairs}
  /\ media = {}

SignNext == \E t \in 0..MaxClock : SignRequestCall(t)

SignSpec == SignInit /\ [][SignNext]_vars

\* ---- vocabulary of the signing claims
Signed == out # None /\ out.route = "signRequest" /\ out.headers # None

\* The value a verifier puts on the line of a signed header name: the
\* request line for (request-target), else the header of that name.
LineValue(name, headers, method, path) ==
  CASE name = "(request-target)" -> <<method, path>>
    [] name = "host" -> headers.Host
    [] name = "date" -> headers.Date
    [] name = "digest" -> headers.Digest

\* The signing string a verifier rebuilds from the Signature header's
\* headers parameter and the headers it received.
Rebuild(headers, method, path) ==
  [n \in 1..Len(headers.Signature.headers) |->
     <<headers.Signature.headers[n],
       LineValue(headers.Signature.headers[n], headers, method, path)>>]

\* C17: the string signRequest signs is exactly four lines, in the order
\* (request-target), host, date, digest; the values on the host, date and
\* digest lines are the values of the returned Host, Date and Digest
\* headers; the Signature header's headers parameter lists the four names
\* in that order, so the string rebuilt from it and the returned headers
\* is the signed string.
C17_SigningString ==
  Signed =>
    LET h == out.headers
        signed == h.Signature.signature.signed
    IN /\ Len(signed) = 4
       /\ <<signed[1][1], signed[2][1], signed[3][1], signed[4][1]>> =
            <<"(request-target)", "host", "date", "digest">>
       /\ signed[1][2] = <<"post", UrlTable[out.targetUrl].pathname>>
       /\ signed[2][2] = h.Host
       /\ signed[3][2] = h.Date
       /\ signed[4][2] = h.Digest
       /\ h.Signature.headers = <<"(request-target)", "host", "date", "digest">>
       /\ Rebuild(h, "post", UrlTable[out.targetUrl].pathname) = signed

\* A request was signed at a clock value other than the initial one.
C17_Witness ==
  /\ Signed
  /\ out.headers.Date > 0
  /\ out.headers.Host = "r2.example"

\* ====================================================================
\* The posts table and the outbox (posts.ts, activitypub/outbox.ts).
\* ====================================================================
\* Text of a post or a timestamp is the sequence of its character codes:
\* 10 is "\n", 32 " ", 48.."0", 84 "T", 90 "Z", 97 "a", 98 "b".
\* Largest value of the AUTOINCREMENT sequence of posts.
MaxPosts == 2
\* Request bodies of POST /api/posts: no content, "a", "a\nb".
Contents == {<<>>, <<97>>, <<97, 10, 98>>}
\* "<br>"
Br == <<60, 98, 114, 62>>

\* SQLite's datetime("now") at clock value t, "d h" for a date digit d and
\* a time digit h.
datetime(t) == <<48 + (t \div 10), 32, 48 + (t % 10)>>

\* BINARY collation of TEXT: a sorts before b.
TextLess(a, b) ==
  \/ Len(a) < Len(b) /\ SubSeq(b, 1, Len(a)) = a
  \/ \E i \in 1..Len(a) :
       /\ i <= Len(b)
       /\ SubSeq(a, 1, i - 1) = SubSeq(b, 1, i - 1)
       /\ a[i] < b[i]

\* INSERT INTO posts (content, created_at) VALUES (?, datetime("now")||"Z")
\* RETURNING *: the row takes the next value of the sequence.
insertPost(db, content, t) ==
  LET row == [id |-> db.seq + 1, content |-> content,
              created_at |-> datetime(t) \o <<90>>]
  IN [rows |-> db.rows \cup {row}, seq |-> db.seq + 1]

\* DELETE FROM posts WHERE id = ?
deletePost(db, postId) ==
  [db EXCEPT !.rows = {row \in @ : row.id # postId}]

\* SELECT * FROM posts ORDER BY created_at DESC: every row once, no row
\* before a row with a later created_at.  SQL leaves the order of rows with
\* equal created_at to the engine, so each such order is a possible result.
selectPostsByCreatedAtDesc(db) ==
  LET RECURSIVE ordered(_)
      ordered(rows) ==
        IF rows = {} THEN {<<>>}
        ELSE UNION {{<<first>> \o rest : rest \in ordered(rows \ {first})} :
                      first \in {row \in rows :
                                   \A other \in rows :
                                     ~TextLess(row.created_at, other.created_at)}}
  IN ordered(db.rows)

\* datetime.replace(' ', 'T'): the first space only.
replaceFirstSpace(text) ==
  IF \E i \in 1..Len(text) : text[i] = 32
    THEN LET i == CHOOSE j \in 1..Len(text) :
                    text[j] = 32 /\ \A l \in 1..(j - 1) : text[l] # 32
         IN [text EXCEPT ![i] = 84]
    ELSE text

\* Mutant: the "Z" is appended without looking at the end of the text.
toISO8601_alwaysZ(text) ==
  (IF \E i \in 1..Len(text) : text[i] = 32
     THEN [text EXCEPT ![CHOOSE j \in 1..Len(text) :
                           text[j] = 32 /\ \A l \in 1..(j - 1) : text[l] # 32] = 84]
     ELSE text) \o <<90>>

\* Mutant: the suffix test looks for a final "T" instead of a final "Z".
toISO8601_endsWithT(text) ==
  LET iso == IF \E i \in 1..Len(text) : text[i] = 32
               THEN [text EXCEPT ![CHOOSE j \in 1..Len(text) :
                                     text[j] = 32 /\ \A l \in 1..(j - 1) : text[l] # 32] = 84]
               ELSE text
  IN IF Len(iso) > 0 /\ iso[Len(iso)] = 84 THEN iso ELSE iso \o <<90>>

\* toISO8601: space to "T", and a "Z" appended unless the text ends in one.
toISO8601(text) ==
  LET iso == replaceFirstSpace(text)
  IN IF Len(iso) > 0 /\ iso[Len(iso)] = 90 THEN iso ELSE iso \o <<90>>

\* post.content.replace(/\n/g, '<br>')
RECURSIVE replaceNewlines(_)
replaceNewlines(text) ==
  IF Len(text) = 0 THEN <<>>
  ELSE (IF Head(text) = 10 THEN Br ELSE <<Head(text)>>)
         \o replaceNewlines(Tail(text))

outboxUrl == <<"https://", API_DOMAIN, "/api/activitypub/outbox">>
followersUrl == <<"https://", API_DOMAIN, "/api/activitypub/followers">>
publicTarget == "https://www.w3.org/ns/activitystreams#Public"

\* The Create activity of one post (outbox.ts lines 59-82).
createActivity(post) ==
  LET postUrl == <<"https://", API_DOMAIN, "/api/activitypub/posts/", post.id>>
      content == replaceNewlines(post.content)
      published == toISO8601(post.created_at)
  IN [id |-> <<postUrl, "#create">>, type |-> "Create", actor |-> actorUrl,
      published |-> published, to |-> <<publicTarget>>, cc |-> <<followersUrl>>,
      object |-> [id |-> postUrl, type |-> "Note", attributedTo |-> actorUrl,
                  content |-> content, published |-> published,
                  to |-> <<publicTarget>>, cc |-> <<followersUrl>>,
                  url |-> <<"https://", SITE_DOMAIN, "/posts/", post.id>>]]

\* Mutant: totalItems counts the items of a first page of one item.
outboxCollection_firstPageCount(results) ==
  [id |-> <<"https://", "mb-api.krnk.app", "/api/activitypub/outbox">>,
   type |-> "OrderedCollection",
   totalItems |-> IF Len(results) > 1 THEN 1 ELSE Len(results),
   first |-> << <<"https://", "mb-api.krnk.app", "/api/activitypub/outbox">>,
                "?page=true">>]

\* The answer to a query without page=true (lines 40-46).
outboxCollection(results) ==
  [id |-> outboxUrl, type |-> "OrderedCollection",
   totalItems |-> Len(results), first |-> <<outboxUrl, "?page=true">>]

\* The answer to a query with page=true (lines 59-90).
outboxPage(results) ==
  [id |-> <<outboxUrl, "?page=true">>, type |-> "OrderedCollectionPage",
   partOf |-> outboxUrl,
   orderedItems |-> [n \in 1..Len(results) |-> createActivity(results[n])]]

\* url.searchParams.get('page') === 'true'
isPageRequest(searchParams) == <<"page", "true">> \in searchParams

\* handleOutbox, given the rows the SELECT returned.
handleOutbox(searchParams, results) ==
  JsonResponse(200, "application/activity+json",
               IF ~isPageRequest(searchParams)
                 THEN outboxCollection(results)
                 ELSE outboxPage(results))

\* handleCreatePost: 400 without content or with more than 280 characters,
\* else the INSERT at clock value t and 201 with the new row.
handleCreatePost(db, content, t) ==
  IF Len(content) = 0
    THEN [db |-> db,
          response |-> JsonResponse(400, "application/json",
                                    [error |-> "Content is required"])]
    ELSE IF Len(content) > 280
      THEN [db |-> db,
            response |-> JsonResponse(400, "application/json",
                           [error |-> "Content too long (max 280 characters)"])]
      ELSE LET stored == insertPost(db, content, t)
           IN [db |-> stored,
               response |-> JsonResponse(201, "application/json",
                              [post |-> CHOOSE row \in stored.rows :
                                          row.id = stored.seq])]

\* handleDeletePost: 404 when no row has the id, else the row is deleted.
handleDeletePost(db, postId) ==
  IF \E row \in db.rows : row.id = postId
    THEN [db |-> deletePost(db, postId),
          response |-> JsonResponse(200, "application/json",
                         [message |-> "Post deleted",
                          post |-> CHOOSE row \in db.rows : row.id = postId])]
    ELSE [db |-> db,
          response |-> JsonResponse(404, "application/json",
                                    [error |-> "Post not found"])]

\* POST /api/posts; SQLite's clock shows t.
CreatePost(content, t) ==
  /\ posts.seq < MaxPosts
  /\ t >= now
  /\ LET done == handleCreatePost(posts, content, t)
     IN /\ posts' = done.db
        /\ out' = [route |-> "posts", response |-> done.response]
        /\ now' = IF done.db = posts THEN now ELSE t
  /\ UNCHANGED <<accountKeys, req, gen, media>>

\* DELETE /api/posts/:id
DeletePost(postId) ==
  /\ LET done == handleDeletePost(posts, postId)
     IN /\ posts' = done.db
        /\ out' = [route |-> "posts", response |-> done.response]
  /\ UNCHANGED <<accountKeys, now, req, gen, media>>

\* The queries of GET /api/activitypub/outbox: none, page=true, page=1.
OutboxQueries == {{}, {<<"page", "true">>}, {<<"page", "1">>}}

\* GET /api/activitypub/outbox.  The answer is kept with the rows read.
OutboxRequest(searchParams) ==
  /\ \E results \in selectPostsByCreatedAtDesc(posts) :
       out' = [route |-> "outbox", searchParams |-> searchParams,
               store |-> posts.rows,
               response |-> handleOutbox(searchParams, results)]
  /\ UNCHANGED <<accountKeys, now, req, gen, posts, media>>

OutboxNext ==
  \/ \E content \in Contents, t \in 0..MaxClock : CreatePost(content, t)
  \/ \E postId \in 1..MaxPosts : DeletePost(postId)
  \/ \E searchParams \in OutboxQueries : OutboxRequest(searchParams)

OutboxSpec == Init /\ [][OutboxNext]_vars

\* ---- vocabulary of the outbox claims
OutboxAnswered == out # None /\ out.route = "outbox"
PageAnswered(o) == o # None /\ o.route = "outbox" /\ isPageRequest(o.searchParams)
BareAnswered(o) == o # None /\ o.route = "outbox" /\ ~isPageRequest(o.searchParams)
\* The post ids of the Create activities of a page, in order.
ItemIds(page) == [n \in 1..Len(page.orderedItems) |-> page.orderedItems[n].object.id[4]]

C20_PageOrderStable ==
  [][/\ PageAnswered(out') =>
          LET items == out'.response.body.orderedItems
          IN /\ {ItemIds(out'.response.body)[n] : n \in 1..Len(items)} =
                  {row.id : row \in out'.store}
             /\ Len(items) = Cardinality(out'.store)
             /\ \A m, n \in 1..Len(items) :
                  m < n => ~TextLess(items[m].published, items[n].published)
      /\ (PageAnswered(out) /\ PageAnswered(out') /\ out.store = out'.store) =>
           out'.response.body.orderedItems = out.response.body.orderedItems
    ]_vars

\* ====================================================================
\* The other read-only handlers (activitypub/featured.ts, post.ts) and
\* all handlers side by side with provisioning.
\* ====================================================================
FEATURED_COUNT == 5
\* featured.ts: const API_DOMAIN
FEATURED_API_DOMAIN == "mb.krnk.app"

\* Mutant: the SELECT without its LIMIT.
selectLatestPosts_noLimit(db, limit) == selectPostsByCreatedAtDesc(db)

\* SELECT * FROM posts ORDER BY created_at DESC LIMIT ?
selectLatestPosts(db, limit) ==
  {SubSeq(results, 1, IF Len(results) < limit THEN Len(results) ELSE limit) :
     results \in selectPostsByCreatedAtDesc(db)}

\* The Note of one post as handleFeatured and handlePost build it, each
\* with its own API_DOMAIN.
noteOf(apiDomain, post) ==
  LET postUrl == <<"https://", apiDomain, "/api/activitypub/posts/", post.id>>
  IN [id |-> postUrl, type |-> "Note",
      attributedTo |-> <<"https://", apiDomain, "/api/activitypub/actor">>,
      content |-> replaceNewlines(post.content),
      published |-> toISO8601(post.created_at),
      to |-> <<publicTarget>>,
      cc |-> << <<"https://", apiDomain, "/api/activitypub/followers">> >>,
      url |-> <<"https://", SITE_DOMAIN, "/posts/", post.id>>]

\* handleFeatured, given the rows the SELECT returned.
handleFeatured(results) ==
  JsonResponse(200, "application/activity+json",
    [id |-> <<"https://", FEATURED_API_DOMAIN, "/api/activitypub/featured">>,
     type |-> "OrderedCollection",
     totalItems |-> Len(results),
     orderedItems |-> [n \in 1..Len(results) |->
                         noteOf(FEATURED_API_DOMAIN, results[n])]])

\* handlePost: 404 when no row has the id, else its Note.
handlePost(db, postId) ==
  IF \E row \in db.rows : row.id = postId
    THEN JsonResponse(200, "application/activity+json",
                      noteOf(API_DOMAIN, CHOOSE row \in db.rows : row.id = postId))
    ELSE JsonResponse(404, "application/json", [error |-> "Not found"])

\* GET /api/activitypub/featured
FeaturedRequest ==
  /\ \E results \in selectLatestPosts(posts, FEATURED_COUNT) :
       out' = [route |-> "featured", store |-> posts.rows,
               response |-> handleFeatured(results)]
  /\ UNCHANGED <<accountKeys, now, req, gen, posts, media>>

\* GET /api/activitypub/posts/:id
PostRequest(postId) ==
  /\ out' = [route |-> "post", store |-> posts.rows,
             response |-> handlePost(posts, postId)]
  /\ UNCHANGED <<accountKeys, now, req, gen, posts, media>>

\* GET /.well-known/webfinger, query and answer in one step.
WebFingerGet(searchParams) ==
  /\ out' = [WebFingerArrives(searchParams) EXCEPT
               !.response = handleWebFinger(searchParams)]
  /\ UNCHANGED <<accountKeys, now, req, gen, posts, media>>

\* The stores the handlers start on: no post, or one post made at clock 0.
HandlerInit ==
  /\ accountKeys = {}
  /\ now = 0
  /\ req = [i \in Requests |-> NewRequest]
  /\ gen = [p \in Provisioners |-> NewProvisioner]
  /\ posts \in {NoPosts, insertPost(NoPosts, <<97>>, 0)}
  /\ out = None
  /\ media = {}

\* Provisioning next to one inbox delivery and the read-only handlers.
HandlerNext ==
  \/ \E k \in GeneratedKeyPairs : generateAndStoreKeyPair(USER_ID, k)
  \/ \E body \in Bodies : InboxRequest(1, body)
  \/ \E answer \in ActorAnswers : ActorAnswer(1, answer)
  \/ \E t \in 0..MaxClock : KeyLoaded(1, t)
  \/ \E answer \in DeliveryAnswers : DeliveryAnswer(1, answer)
  \/ FollowersRequest(1)
  \/ FollowingRequest(1)
  \/ ActorRequest
  \/ \E searchParams \in OutboxQueries : OutboxRequest(searchParams)
  \/ FeaturedRequest
  \/ \E postId \in 1..MaxPosts : PostRequest(postId)
  \/ \E resource \in KnownAccounts \cup {<<"acct:", "x">>} :
       WebFingerGet({<<"resource", resource>>})

HandlerSpec == HandlerInit /\ [][HandlerNext]_vars

\* C12: a row of account_keys, once there, is never changed or removed;
\* every step of handleActor, handleInbox (with getPrivateKey and
\* signRequest), the outbox, featured, collection, post and WebFinger
\* handlers leaves the table as it was.
C12_KeysNeverChange ==
  [][/\ \A row \in accountKeys : row \in accountKeys'
     /\ (req' # req \/ out' # out) => accountKeys' = accountKeys
    ]_vars

\* With a row stored, the actor document was served and an Accept was
\* signed with the stored key.
C12_Witness ==
  /\ accountKeys # {}
  /\ ActorAnswered /\ out.response.status = 200
  /\ IsInbox(1) /\ Done(1) /\ KeyPresent(1)

\* ====================================================================
\* The Note of a post in each document that carries it: outbox page,
\* featured collection, single-post lookup (post.ts) and the
\* content-negotiated post page (pages/post.tsx).
\* ====================================================================
\* pages/post.tsx: const API_DOMAIN
PAGE_API_DOMAIN == "mb.krnk.app"

\* Further character codes: 38 "&", 47 "/", 59 ";", 60 "<", 62 ">",
\* 96 "`"; lower-case letters from 97.
\* Attribute-free tags as preact-render-to-string writes them.
OpenTag(name) == <<60>> \o name \o <<62>>
CloseTag(name) == <<60, 47>> \o name \o <<62>>
span == <<115, 112, 97, 110>>
code == <<99, 111, 100, 101>>
\* The two spellings of the void element <br /> the renderer's versions
\* write; the source does not name the version.
VoidBreaks == {<<60, 98, 114, 47, 62>>, <<60, 98, 114, 32, 47, 62>>}

\* The renderer's escaping of text children: "&" and "<".
RECURSIVE encodeEntities(_)
encodeEntities(text) ==
  IF Len(text) = 0 THEN <<>>
  ELSE (CASE Head(text) = 38 -> <<38, 97, 109, 112, 59>>
          [] Head(text) = 60 -> <<38, 108, 116, 59>>
          [] OTHER -> <<Head(text)>>)
         \o encodeEntities(Tail(text))

\* parseTextSegment from position i on, with the plain text pending since
\* position from: tokenRegex matches an inline code `...` (no backtick or
\* newline inside, not empty) or a newline; the URL alternative needs
\* "http", which no content drawn here contains.
RECURSIVE parseTextFrom(_, _, _)
parseTextFrom(text, i, from) ==
  LET pending == IF from < i
                   THEN << [type |-> "text", content |-> SubSeq(text, from, i - 1)] >>
                   ELSE <<>>
      closes(j) == /\ j > i + 1
                   /\ text[j] = 96
                   /\ \A l \in (i + 1)..(j - 1) : text[l] # 96 /\ text[l] # 10
  IN IF i > Len(text) THEN pending
     ELSE IF text[i] = 10
       THEN pending \o << [type |-> "newline", content |-> <<10>>] >>
              \o parseTextFrom(text, i + 1, i + 1)
     ELSE IF text[i] = 96 /\ \E j \in (i + 2)..Len(text) : closes(j)
       THEN LET j == CHOOSE k \in (i + 2)..Len(text) : closes(k)
            IN pending
                 \o << [type |-> "inline-code", content |-> SubSeq(text, i + 1, j - 1)] >>
                 \o parseTextFrom(text, j + 1, j + 1)
     ELSE parseTextFrom(text, i + 1, from)

parseTextSegment(text) == parseTextFrom(text, 1, 1)

\* parseContent: code blocks need three backticks and a newline, which no
\* content drawn here contains, so all of the content is one text segment
\* run.
parseContent(content) == parseTextSegment(content)

\* formatContentForActivityPub: each segment rendered by the renderer.
RECURSIVE renderSegments(_, _)
renderSegments(segments, br) ==
  IF Len(segments) = 0 THEN <<>>
  ELSE LET segment == Head(segments)
       IN (CASE segment.type = "newline" -> br
             [] segment.type = "inline-code" ->
                  OpenTag(code) \o encodeEntities(segment.content) \o CloseTag(code)
             [] OTHER ->
                  OpenTag(span) \o encodeEntities(segment.content) \o CloseTag(span))
            \o renderSegments(Tail(segments), br)

formatContentForActivityPub(content, br) ==
  renderSegments(parseContent(content), br)

\* Mutant: the page builds its Note content as the other handlers do.
renderActivityPubNote_plain(post, br) ==
  [id |-> <<"https://", "mb.krnk.app", "/api/activitypub/posts/", post.id>>,
   type |-> "Note",
   attributedTo |-> <<"https://", "mb.krnk.app", "/api/activitypub/actor">>,
   content |-> replaceNewlines(post.content),
   published |-> toISO8601(post.created_at),
   to |-> <<"https://www.w3.org/ns/activitystreams#Public">>,
   cc |-> << <<"https://", "mb.krnk.app", "/api/activitypub/followers">> >>,
   url |-> <<"https://", "mb.krnk.app", "/posts/", post.id>>]

\* renderActivityPubNote of pages/post.tsx.
renderActivityPubNote(post, br) ==
  [noteOf(PAGE_API_DOMAIN, post) EXCEPT
     !.content = formatContentForActivityPub(post.content, br)]

\* request.headers.get('Accept'), as the set of media types it lists.
AcceptHeaders ==
  {{}, {"text/html"}, {"application/activity+json"},
   {"application/ld+json", "text/html"}}

wantsActivityPub(accept) ==
  "application/activity+json" \in accept \/ "application/ld+json" \in accept

\* handlePostPage: 404 as text, the Note for an ActivityPub reader, else
\* the HTML page (kept symbolic).
handlePostPage(db, postId, accept, br) ==
  IF ~\E row \in db.rows : row.id = postId
    THEN JsonResponse(404, "text/html; charset=utf-8", Text("Post not found"))
    ELSE LET post == CHOOSE row \in db.rows : row.id = postId
         IN IF wantsActivityPub(accept)
              THEN JsonResponse(200, "application/activity+json",
                                renderActivityPubNote(post, br))
              ELSE JsonResponse(200, "text/html; charset=utf-8",
                                [kind |-> "html", post |-> post.id])

\* GET /posts/:id
PostPageRequest(postId, accept, br) ==
  /\ out' = [route |-> "postPage", store |-> posts.rows, postId |-> postId,
             response |-> handlePostPage(posts, postId, accept, br)]
  /\ UNCHANGED <<accountKeys, now, req, gen, posts, media>>

\* Post contents the store holds here: "a", "a\nb", "`a`", "<".
PostContents == {<<97>>, <<97, 10, 98>>, <<96, 97, 96>>, <<60>>}

\* What one id of the posts table can hold: nothing, or a row made at
\* clock value id whose created_at is datetime("now") || "Z" or, for a row
\* written before the "Z" was appended (the form toISO8601's comment
\* starts from), datetime("now") alone.
PostSlots(id) ==
  {[present |-> FALSE, content |-> <<>>, created_at |-> <<>>]}
    \cup {[present |-> TRUE, content |-> content, created_at |-> created_at] :
            content \in PostContents,
            created_at \in {datetime(id), datetime(id) \o <<90>>}}

NoteStores ==
  {[rows |-> {[id |-> id, content |-> slots[id].content,
               created_at |-> slots[id].created_at] :
                id \in {j \in 1..MaxPosts : slots[j].present}},
    seq |-> MaxPosts] :
     slots \in {f \in [1..MaxPosts -> UNION {PostSlots(id) : id \in 1..MaxPosts}] :
                  \A id \in 1..MaxPosts : f[id] \in PostSlots(id)}}

NoteInit ==
  /\ accountKeys = {}
  /\ now = 0
  /\ req = [i \in Requests |-> NewRequest]
  /\ gen = [p \in Provisioners |-> NewProvisioner]
  /\ posts \in NoteStores
  /\ out = None
  /\ media = {}

NoteNext ==
  \/ \E searchParams \in OutboxQueries : OutboxRequest(searchParams)
  \/ FeaturedRequest
  \/ \E postId \in 1..MaxPosts : PostRequest(postId)
  \/ \E postId \in 1..MaxPosts, accept \in AcceptHeaders, br \in VoidBreaks :
       PostPageRequest(postId, accept, br)

NoteSpec == NoteInit /\ [][NoteNext]_vars

\* ---- vocabulary of the Note claims
\* The post id a Note's id ends in.
NotePostId(note) == note.id[4]
\* The Notes of the answer held in out, by the document that carries them.
OutboxNotes ==
  IF PageAnswered(out)
    THEN {out.response.body.orderedItems[n].object :
            n \in 1..Len(out.response.body.orderedItems)}
    ELSE {}
FeaturedNotes ==
  IF out # None /\ out.route = "featured"
    THEN {out.response.body.orderedItems[n] :
            n \in 1..Len(out.response.body.orderedItems)}
    ELSE {}
PostNotes ==
  IF out # None /\ out.route = "post" /\ out.response.status = 200
    THEN {out.response.body} ELSE {}
PageNotes ==
  IF /\ out # None /\ out.route = "postPage"
     /\ out.response.contentType = "application/activity+json"
    THEN {out.response.body} ELSE {}
\* The published values of the Creates of an outbox page, with their post.
CreatePublished ==
  IF PageAnswered(out)
    THEN {<<NotePostId(out.response.body.orderedItems[n].object),
            out.response.body.orderedItems[n].published>> :
            n \in 1..Len(out.response.body.orderedItems)}
    ELSE {}
\* The stored post a Note or Create is about.
StoredPost(id) == CHOOSE row \in out.store : row.id = id
\* A strict UTC timestamp: date, "T", time and one "Z", at the end.
StrictUtc(text) ==
  /\ Len(text) > 0
  /\ text[Len(text)] = 90
  /\ Cardinality({n \in 1..Len(text) : text[n] = 90}) = 1
  /\ Cardinality({n \in 1..Len(text) : text[n] = 84}) = 1
  /\ \A n \in 1..Len(text) : text[n] # 32
\* createdAt with its space as "T", and "Z" added exactly when it has none.
Normalized(createdAt) ==
  [n \in 1..Len(createdAt) |-> IF createdAt[n] = 32 THEN 84 ELSE createdAt[n]]
    \o (IF createdAt[Len(createdAt)] = 90 THEN <<>> ELSE <<90>>)

TimestampTexts ==
  {<<48 + d, separator, 48 + h>> \o suffix :
     d \in 0..9, h \in 0..9, separator \in {32, 84}, suffix \in {<<>>, <<90>>}}

\* toISO8601 is called with a text.
ToISO8601Arrives(text) ==
  [route |-> "toISO8601", datetime |-> text, once |-> <<>>, twice |-> <<>>]

\* The call, and the call on its own result.
ToISO8601Call ==
  /\ out # None /\ out.route = "toISO8601" /\ out.once = <<>>
  /\ out' = [out EXCEPT !.once = toISO8601(out.datetime),
                        !.twice = toISO8601(toISO8601(out.datetime))]
  /\ UNCHANGED <<accountKeys, now, req, gen, posts, media>>

IsoInit ==
  /\ accountKeys = {}
  /\ now = 0
  /\ req = [i \in Requests |-> NewRequest]
  /\ gen = [p \in Provisioners |-> NewProvisioner]
  /\ posts = NoPosts
  /\ out \in {ToISO8601Arrives(text) : text \in TimestampTexts}
  /\ media = {}

IsoNext == ToISO8601Call

IsoSpec == IsoInit /\ [][IsoNext]_vars

Normalised == out # None /\ out.route = "toISO8601" /\ out.once # <<>>

\* C22: timestamp normalisation is idempotent: for every createdAt text
\* the store can hold, toISO8601(toISO8601(x)) = toISO8601(x), and a text
\* already of the form date "T" time "Z" is returned unchanged.
C22_NormalisationIdempotent ==
  Normalised =>
    /\ out.twice = out.once
    /\ (out.datetime[2] = 84 /\ out.datetime[Len(out.datetime)] = 90) =>
         out.once = out.datetime

\* A text with a space and without "Z" was normalised to another text.
C22_Witness ==
  /\ Normalised
  /\ out.datetime[2] = 32 /\ out.datetime[Len(out.datetime)] # 90
  /\ out.once # out.datetime

\* ====================================================================
\* Note content across the documents.
\* ====================================================================
\* The Notes of the answer held in out, whichever document carries them.
EmittedNotes == OutboxNotes \cup FeaturedNotes \cup PostNotes \cup PageNotes

\* A text with every newline replaced by one spelling of the line break
\* and every other character kept.
WithBreaks(text, br) ==
  LET RECURSIVE from(_)
      from(n) == IF n > Len(text) THEN <<>>
                 ELSE (IF text[n] = 10 THEN br ELSE <<text[n]>>) \o from(n + 1)
  IN from(1)

\* C23: in every document that carries a Note (outbox page, featured
\* collection, single-post lookup, content-negotiated post page) the
\* content is the post's content with every newline replaced by a line
\* break and no other character added, removed or transformed.
C23_ContentOnlyBreaks ==
  \A note \in EmittedNotes :
    \E br \in {Br} \cup VoidBreaks :
      note.content = WithBreaks(StoredPost(NotePostId(note)).content, br)

\* ====================================================================
\* The featured collection over stores larger than FEATURED_COUNT.
\* ====================================================================
MaxFeatured == 6

\* The stores of up to MaxFeatured posts: ids in insertion order, each
\* created_at the clock of its INSERT, which never runs backwards; at most
\* two INSERTs fall in one second.
FeaturedStores ==
  UNION {{[rows |-> {[id |-> id, content |-> <<97>>,
                      created_at |-> datetime(clock[id]) \o <<90>>] : id \in 1..n},
           seq |-> n] :
            clock \in {c \in [1..n -> 0..(MaxFeatured - 1)] :
                         /\ \A a, b \in 1..n : a < b => c[a] <= c[b]
                         /\ \A a, b \in 1..n : b = a + 2 => c[a] < c[b]}} :
         n \in 0..MaxFeatured}

FeaturedInit ==
  /\ accountKeys = {}
  /\ now = 0
  /\ req = [i \in Requests |-> NewRequest]
  /\ gen = [p \in Provisioners |-> NewProvisioner]
  /\ posts \in FeaturedStores
  /\ out = None
  /\ media = {}

FeaturedNext == FeaturedRequest

FeaturedSpec == FeaturedInit /\ [][FeaturedNext]_vars

FeaturedAnswered == out # None /\ out.route = "featured"
FeaturedItems == out.response.body.orderedItems
\* The stored rows the items of the collection are about.
FeaturedRows == {StoredPost(NotePostId(FeaturedItems[n])) : n \in 1..Len(FeaturedItems)}

\* C24: the featured collection returns min(N, count) items with N = 5:
\* the N posts of greatest createdAt, in descending order of createdAt,
\* every item of type "Note", and totalItems the number of items returned.
C24_FeaturedLatestNotes ==
  FeaturedAnswered =>
    LET count == Cardinality(out.store)
        returned == Len(FeaturedItems)
    IN /\ returned = (IF count < 5 THEN count ELSE 5)
       /\ Cardinality(FeaturedRows) = returned
       /\ \A row \in FeaturedRows : \A other \in out.store \ FeaturedRows :
            ~TextLess(row.created_at, other.created_at)
       /\ \A m, n \in 1..returned :
            m < n => ~TextLess(StoredPost(NotePostId(FeaturedItems[m])).created_at,
                               StoredPost(NotePostId(FeaturedItems[n])).created_at)
       /\ \A n \in 1..returned :
            /\ FeaturedItems[n].type = "Note"
            /\ FeaturedItems[n] = noteOf(FEATURED_API_DOMAIN,
                                         StoredPost(NotePostId(FeaturedItems[n])))
       /\ out.response.body.totalItems = returned

\* The collection of a store of more than five posts of two dates: five
\* items, the oldest post left out.
C24_Witness ==
  /\ FeaturedAnswered
  /\ Cardinality(out.store) > FEATURED_COUNT
  /\ Len(FeaturedItems) = FEATURED_COUNT
  /\ \E a, b \in out.store : TextLess(a.created_at, b.created_at)
  /\ \A n \in 1..Len(FeaturedItems) : NotePostId(FeaturedItems[n]) # 1

\* ====================================================================
\* Error responses.
\* ====================================================================
\* A body that is a JSON object with an error field.
IsErrorObject(body) == "error" \in DOMAIN body

\* C25: every error response caused by bad input or missing
\* configuration (WebFinger 400 and 404, actor 500, single-post 404,
\* inbox 400 and inbox 500) has a JSON body that is an object with an
\* error field.
C25_ErrorBodiesAreJsonObjects ==
  /\ \A i \in Requests :
       (Done(i) /\ IsInbox(i) /\ req[i].status \in {400, 500}) =>
         IsErrorObject(req[i].response)
  /\ (out # None /\ out.route \in {"webfinger", "actor", "post"}
        /\ out.response.status \in {400, 404, 500}) =>
       IsErrorObject(out.response.body)

\* ====================================================================
\* Media: detectImageType and handleUploadMedia.
\* ====================================================================
\* media.ts: const MAX_IMAGE_SIZE
MAX_IMAGE_SIZE == 5 * 1024 * 1024

\* type SupportedImageMime, and the null detectImageType returns besides.
SupportedImageMime == {"image/jpeg", "image/png", "image/gif", "image/webp"}
NullType == "null"

\* Mutant: no length test; a byte past the end reads as undefined, which
\* equals no number.
detectImageType_noLengthTest(buffer) ==
  LET bytes(n) == IF n < Len(buffer) THEN buffer[n + 1] ELSE -1
  IN IF bytes(0) = 255 /\ bytes(1) = 216 /\ bytes(2) = 255
       THEN "image/jpeg"
     ELSE IF /\ bytes(0) = 137 /\ bytes(1) = 80 /\ bytes(2) = 78 /\ bytes(3) = 71
             /\ bytes(4) = 13 /\ bytes(5) = 10 /\ bytes(6) = 26 /\ bytes(7) = 10
       THEN "image/png"
     ELSE IF /\ bytes(0) = 71 /\ bytes(1) = 73 /\ bytes(2) = 70
             /\ bytes(3) = 56
             /\ (bytes(4) = 55 \/ bytes(4) = 57)
             /\ bytes(5) = 97
       THEN "image/gif"
     ELSE IF /\ bytes(0) = 82 /\ bytes(1) = 73 /\ bytes(2) = 70 /\ bytes(3) = 70
             /\ bytes(8) = 87 /\ bytes(9) = 69 /\ bytes(10) = 66 /\ bytes(11) = 80
       THEN "image/webp"
     ELSE "null"

\* detectImageType: the image type the first bytes announce, or null.
\* bytes(n) is bytes[n] of the Uint8Array.
detectImageType(buffer) ==
  LET bytes(n) == buffer[n + 1]
  IN IF Len(buffer) < 12 THEN NullType
     ELSE IF bytes(0) = 255 /\ bytes(1) = 216 /\ bytes(2) = 255
       THEN "image/jpeg"
     ELSE IF /\ bytes(0) = 137 /\ bytes(1) = 80 /\ bytes(2) = 78 /\ bytes(3) = 71
             /\ bytes(4) = 13 /\ bytes(5) = 10 /\ bytes(6) = 26 /\ bytes(7) = 10
       THEN "image/png"
     ELSE IF /\ bytes(0) = 71 /\ bytes(1) = 73 /\ bytes(2) = 70
             /\ bytes(3) = 56
             /\ (bytes(4) = 55 \/ bytes(4) = 57)
             /\ bytes(5) = 97
       THEN "image/gif"
     ELSE IF /\ bytes(0) = 82 /\ bytes(1) = 73 /\ bytes(2) = 70 /\ bytes(3) = 70
             /\ bytes(8) = 87 /\ bytes(9) = 69 /\ bytes(10) = 66 /\ bytes(11) = 80
       THEN "image/webp"
     ELSE NullType

\* detectedType.split('/')[1].replace('jpeg', 'jpg')
extensionOf(detectedType) ==
  CASE detectedType = "image/jpeg" -> "jpg"
    [] detectedType = "image/png" -> "png"
    [] detectedType = "image/gif" -> "gif"
    [] detectedType = "image/webp" -> "webp"

\* env.MEDIA.put(filename, body, { httpMetadata: { contentType } }): the
\* object replaces the one of the same key.
putObject(bucket, filename, body, contentType) ==
  {object \in bucket : object.key # filename}
    \cup {[key |-> filename, body |-> body, contentType |-> contentType]}

\* handleUploadMedia.  contentLength is the Content-Length header as the
\* set of its values (none or one); t is Date.now() and random the six
\* characters of Math.random().
handleUploadMedia(bucket, contentLength, body, t, random) ==
  IF \E length \in contentLength : length > MAX_IMAGE_SIZE
    THEN [bucket |-> bucket,
          response |-> JsonResponse(413, "application/json",
                                    [error |-> "File too large. Max 5MB"])]
    ELSE IF Len(body) > MAX_IMAGE_SIZE
      THEN [bucket |-> bucket,
            response |-> JsonResponse(413, "application/json",
                                      [error |-> "File too large. Max 5MB"])]
      ELSE LET detectedType == detectImageType(body)
           IN IF detectedType = NullType
                THEN [bucket |-> bucket,
                      response |-> JsonResponse(400, "application/json",
                        [error |-> "Invalid file type. Allowed: jpeg, png, gif, webp"])]
                ELSE LET filename == <<t, "-", random, ".", extensionOf(detectedType)>>
                     IN [bucket |-> putObject(bucket, filename, body, detectedType),
                         response |-> JsonResponse(201, "application/json",
                           [url |-> <<"https://", API_DOMAIN, "/api/media/", filename>>])]

\* The first bytes of the uploads: the four formats, and near misses.
BufferHeads ==
  {<<255, 216, 255, 224>>,                              \* JPEG
   <<255, 216, 0>>,
   <<137, 80, 78, 71, 13, 10, 26, 10>>,                 \* PNG
   <<137, 80, 78, 71, 13, 10, 26, 0>>,
   <<71, 73, 70, 56, 55, 97>>,                          \* GIF87a
   <<71, 73, 70, 56, 57, 97>>,                          \* GIF89a
   <<71, 73, 70, 56, 56, 97>>,
   <<82, 73, 70, 70, 36, 0, 0, 0, 87, 69, 66, 80>>,     \* RIFF....WEBP
   <<82, 73, 70, 70, 36, 0, 0, 0, 87, 65, 86, 69>>,     \* RIFF....WAVE
   <<72, 101, 108, 108, 111>>}                          \* "Hello"

\* A head cut or zero-filled to a length.
bufferOf(head, length) ==
  [n \in 1..length |-> IF n <= Len(head) THEN head[n] ELSE 0]

\* Uploads of no byte, of fewer than twelve bytes, of twelve and of more.
Buffers ==
  {bufferOf(head, length) : head \in BufferHeads, length \in {0, 3, 8, 11, 12, 13}}

\* The Content-Length headers of an upload of a body: none, the true
\* length, and one past the limit.
ContentLengths(body) == {{}, {Len(body)}, {MAX_IMAGE_SIZE + 1}}

\* The values of Math.random().toString(36).substring(2, 8).
Randoms == {"k3x9qa"}

\* POST /api/media behind its authentication check.
UploadMedia(contentLength, body, random) ==
  /\ LET done == handleUploadMedia(media, contentLength, body, now, random)
     IN /\ media' = done.bucket
        /\ out' = [route |-> "media", contentLength |-> contentLength,
                   body |-> body, bucket |-> media,
                   response |-> done.response]
  /\ UNCHANGED <<accountKeys, now, req, gen, posts>>

MediaNext ==
  \E body \in Buffers : \E contentLength \in ContentLengths(body) :
    \E random \in Randoms : UploadMedia(contentLength, body, random)

MediaSpec == Init /\ [][MediaNext]_vars

Uploaded == out # None /\ out.route = "media"
\* The buffer starts with the bytes.
StartsWithBytes(buffer, magic) ==
  Len(buffer) >= Len(magic) /\ SubSeq(buffer, 1, Len(magic)) = magic
\* The buffer starts with the magic bytes of the format.
HasMagic(buffer, type) ==
  CASE type = "image/jpeg" -> StartsWithBytes(buffer, <<255, 216, 255>>)
    [] type = "image/png" ->
         StartsWithBytes(buffer, <<137, 80, 78, 71, 13, 10, 26, 10>>)
    [] type = "image/gif" ->
         \/ StartsWithBytes(buffer, <<71, 73, 70, 56, 55, 97>>)
         \/ StartsWithBytes(buffer, <<71, 73, 70, 56, 57, 97>>)
    [] type = "image/webp" ->
         /\ StartsWithBytes(buffer, <<82, 73, 70, 70>>)
         /\ Len(buffer) >= 12
         /\ SubSeq(buffer, 9, 12) = <<87, 69, 66, 80>>

\* C27: detectImageType returns null for every buffer shorter than 12
\* bytes; for a buffer of 12 bytes or more it returns image/jpeg,
\* image/png, image/gif or image/webp exactly when the buffer starts with
\* that format's magic bytes, and null otherwise; handleUploadMedia stores
\* a file only when detectImageType returned a type.
C27_MagicBytesDecide ==
  /\ Uploaded =>
       LET detected == detectImageType(out.body)
       IN /\ detected \in SupportedImageMime \cup {NullType}
          /\ Len(out.body) < 12 => detected = NullType
          /\ Len(out.body) >= 12 =>
               \A type \in SupportedImageMime :
                 detected = type <=> HasMagic(out.body, type)
          /\ media # out.bucket => detected # NullType
          /\ detected = NullType => out.response.status # 201
  /\ \A object \in media :
       /\ Len(object.body) >= 12
       /\ object.contentType \in SupportedImageMime
       /\ HasMagic(object.body, object.contentType)

\* A GIF of twelve bytes was stored after an upload of the same first
\* bytes cut to eleven was refused.
C27_Witness ==
  /\ Uploaded
  /\ Len(out.body) = 11 /\ HasMagic(out.body, "image/gif")
  /\ out.response.status = 400
  /\ \E object \in media : object.contentType = "image/gif"
  /\ media = out.bucket

\* ====================================================================
\* The write API behind its authentication check.
\* ====================================================================
\* env.JWT_SECRET and env.AUTH_PASSWORD
JWT_SECRET == "jwt-secret"
AUTH_PASSWORD == "auth-password"

\* setExpirationTime('7d'), in days of the clock
expirationTime == 7

\* generateToken at clock value t: a JWT is modelled by the key that signed
\* it and its exp claim.
generateToken(t) == [key |-> JWT_SECRET, exp |-> t + expirationTime]

\* verifyToken at clock value t: jwtVerify accepts a token signed with
\* JWT_SECRET whose exp lies ahead; every failure is caught and is false.
verifyToken(token, t) == token.key = JWT_SECRET /\ t < token.exp

\* verifyPassword
verifyPassword(password) == password = AUTH_PASSWORD

\* Mutant: a request that names any token passes.
isAuthenticated_anyToken(request, t) ==
  \/ \E cookieHeader \in request.cookie :
       \E n \in 1..Len(cookieHeader) : cookieHeader[n].name = "auth_token"
  \/ request.authorization # {}

\* isAuthenticated: the first auth_token cookie decides when there is one,
\* else the Authorization header without its "Bearer " prefix, else false.
\* A header is the set of its values: none or one.
isAuthenticated(request, t) ==
  IF \E cookieHeader \in request.cookie :
       \E n \in 1..Len(cookieHeader) : cookieHeader[n].name = "auth_token"
    THEN LET cookies == CHOOSE cookieHeader \in request.cookie : TRUE
             authCookie ==
               cookies[CHOOSE n \in 1..Len(cookies) :
                         /\ cookies[n].name = "auth_token"
                         /\ \A m \in 1..(n - 1) : cookies[m].name # "auth_token"]
         IN verifyToken(authCookie.value, t)
    ELSE IF request.authorization # {}
      THEN LET authHeader == CHOOSE header \in request.authorization : TRUE
           IN verifyToken(authHeader[2], t)
      ELSE FALSE

\* handleLogin: 400 without a password, 401 on a wrong one, else a new
\* token in a Set-Cookie header.
handleLogin(password, t) ==
  IF password = ""
    THEN JsonResponse(400, "application/json", [error |-> "Password is required"])
    ELSE IF ~verifyPassword(password)
      THEN JsonResponse(401, "application/json", [error |-> "Invalid password"])
      ELSE [status |-> 200, contentType |-> "application/json",
            body |-> [success |-> TRUE], setCookie |-> generateToken(t)]

\* handleGetMedia: 404 on a name with other characters than
\* [a-zA-Z0-9._-] or without an object, else the object.
handleGetMedia(bucket, filename) ==
  IF filename[3] = "a%20b"
    THEN JsonResponse(404, "application/json", [error |-> "Not found"])
    ELSE IF \E object \in bucket : object.key = filename
      THEN LET object == CHOOSE o \in bucket : o.key = filename
           IN [status |-> 200, contentType |-> object.contentType,
               body |-> object.body]
      ELSE JsonResponse(404, "application/json", [error |-> "Not found"])

Unauthorized == JsonResponse(401, "application/json", [error |-> "Unauthorized"])

\* fetch: the router.  It returns the answers the request can get, each
\* with the stores it leaves.  pathname is the tuple of its pieces; the
\* body is given as request.json() and as request.arrayBuffer() see it.
fetch(request, db, bucket, t, random) ==
  LET same(response) == {[db |-> db, bucket |-> bucket, response |-> response]}
      path == request.pathname
  IN IF request.method = "OPTIONS"
       THEN same([status |-> 200, contentType |-> "", body |-> Null])
     ELSE IF path[1] = "/api/auth/login" /\ request.method = "POST"
       THEN IF request.body.syntax = "json"
              THEN same(handleLogin(request.body.password, t))
              ELSE same(JsonResponse(500, "application/json",
                                     [error |-> "Internal Server Error"]))
     ELSE IF path[1] = "/api/auth/logout" /\ request.method = "POST"
       THEN same([status |-> 200, contentType |-> "application/json",
                  body |-> [success |-> TRUE], setCookie |-> Null])
     ELSE IF path[1] = "/api/posts" /\ request.method = "GET"
       THEN {[db |-> db, bucket |-> bucket,
              response |-> JsonResponse(200, "application/json", [posts |-> results])] :
               results \in selectLatestPosts(db, 50)}
     ELSE IF path[1] = "/api/posts" /\ request.method = "POST"
       THEN IF ~isAuthenticated(request, t) THEN same(Unauthorized)
            ELSE IF request.body.syntax # "json"
              THEN same(JsonResponse(500, "application/json",
                                     [error |-> "Internal Server Error"]))
              ELSE LET done == handleCreatePost(db, request.body.content, t)
                   IN {[db |-> done.db, bucket |-> bucket, response |-> done.response]}
     ELSE IF path[1] = "/api/posts/" /\ request.method = "DELETE"
       THEN IF ~isAuthenticated(request, t) THEN same(Unauthorized)
            ELSE LET done == handleDeletePost(db, path[2])
                 IN {[db |-> done.db, bucket |-> bucket, response |-> done.response]}
     ELSE IF path[1] = "/api/media" /\ request.method = "POST"
       THEN IF ~isAuthenticated(request, t) THEN same(Unauthorized)
            ELSE LET done == handleUploadMedia(bucket, {Len(request.body.bytes)},
                                               request.body.bytes, t, random)
                 IN {[db |-> db, bucket |-> done.bucket, response |-> done.response]}
     ELSE IF path[1] = "/api/media/" /\ request.method = "GET"
       THEN same(handleGetMedia(bucket, path[2]))
     ELSE same(JsonResponse(404, "application/json", [error |-> "Not Found"]))

\* The tokens a client can send: one the server issued, one past its exp,
\* one signed with another key.
IssuedToken == generateToken(0)
ExpiredToken == [key |-> JWT_SECRET, exp |-> 0]
ForgedToken == [key |-> "guess", exp |-> expirationTime]

\* The Cookie and Authorization headers of a request.
Credentials ==
  {[cookie |-> {}, authorization |-> {}],
   [cookie |-> {<<[name |-> "auth_token", value |-> IssuedToken]>>},
    authorization |-> {}],
   [cookie |-> {<<[name |-> "auth_token", value |-> ExpiredToken]>>},
    authorization |-> {}],
   [cookie |-> {<<[name |-> "auth_token", value |-> ForgedToken]>>},
    authorization |-> {<<"Bearer ", IssuedToken>>}],
   [cookie |-> {<<[name |-> "theme", value |-> ForgedToken]>>},
    authorization |-> {<<"Bearer ", IssuedToken>>}],
   [cookie |-> {<<[name |-> "theme", value |-> ForgedToken],
                  [name |-> "auth_token", value |-> IssuedToken]>>},
    authorization |-> {}],
   [cookie |-> {}, authorization |-> {<<"Bearer ", IssuedToken>>}],
   [cookie |-> {}, authorization |-> {<<"Bearer ", ForgedToken>>}]}

\* Request bodies: JSON with a content or a password, and bytes.
JsonBody(content, password) ==
  [syntax |-> "json", content |-> content, password |-> password,
   bytes |-> <<123, 125>>]
BytesBody(bytes) ==
  [syntax |-> "bytes", content |-> <<>>, password |-> "", bytes |-> bytes]
NoBody == BytesBody(<<>>)

ApiRequest(method, pathname, credentials, body) ==
  [method |-> method, pathname |-> pathname, cookie |-> credentials.cookie,
   authorization |-> credentials.authorization, body |-> body]

\* The requests to the three routes that write, under every credential.
WriteRequests ==
  {ApiRequest("POST", <<"/api/posts">>, credentials, body) :
     credentials \in Credentials,
     body \in {JsonBody(<<97>>, ""), JsonBody(<<>>, ""), BytesBody(<<97>>)}}
  \cup {ApiRequest("DELETE", <<"/api/posts/", id>>, credentials, NoBody) :
          credentials \in Credentials, id \in 1..MaxPosts}
  \cup {ApiRequest("POST", <<"/api/media">>, credentials, BytesBody(bytes)) :
          credentials \in Credentials,
          bytes \in {bufferOf(<<137, 80, 78, 71, 13, 10, 26, 10>>, 12),
                     bufferOf(<<72, 101, 108, 108, 111>>, 12)}}

\* The requests to the other routes.
OtherRequests ==
  {ApiRequest("OPTIONS", <<"/api/posts">>, [cookie |-> {}, authorization |-> {}], NoBody),
   ApiRequest("GET", <<"/api/posts">>, [cookie |-> {}, authorization |-> {}], NoBody),
   ApiRequest("POST", <<"/api/auth/logout">>, [cookie |-> {}, authorization |-> {}], NoBody),
   ApiRequest("PUT", <<"/api/posts">>, [cookie |-> {}, authorization |-> {<<"Bearer ", IssuedToken>>}],
              JsonBody(<<97>>, "")),
   ApiRequest("DELETE", <<"/api/media/", <<0, "-", "k3x9qa", ".", "png">> >>,
              [cookie |-> {}, authorization |-> {<<"Bearer ", IssuedToken>>}], NoBody)}
  \cup {ApiRequest("POST", <<"/api/auth/login">>, [cookie |-> {}, authorization |-> {}], body) :
          body \in {JsonBody(<<>>, AUTH_PASSWORD), JsonBody(<<>>, "guess"),
                    JsonBody(<<>>, ""), BytesBody(<<97>>)}}
  \cup {ApiRequest("GET", <<"/api/media/", <<0, "-", name, ".", "png">> >>,
                   [cookie |-> {}, authorization |-> {}], NoBody) :
          name \in {"k3x9qa", "zzzzzz", "a%20b"}}

\* One request through the router.  The answer is kept with the request
\* and the stores it found.
Fetch(request) ==
  /\ request.method = "POST" /\ request.pathname[1] = "/api/posts" =>
       posts.seq < MaxPosts
  /\ \E random \in Randoms :
       \E done \in fetch(request, posts, media, now, random) :
         /\ posts' = done.db
         /\ media' = done.bucket
         /\ out' = [route |-> "api", request |-> request, db |-> posts,
                    bucket |-> media, response |-> done.response]
  /\ UNCHANGED <<accountKeys, now, req, gen>>

ApiNext == \E request \in WriteRequests \cup OtherRequests : Fetch(request)

ApiSpec == Init /\ [][ApiNext]_vars

ApiAnswered == out # None /\ out.route = "api"
\* The request goes to one of the three routes that write.
IsWriteRequest(request) ==
  \/ request.method = "POST" /\ request.pathname[1] = "/api/posts"
  \/ request.method = "DELETE" /\ request.pathname[1] = "/api/posts/"
  \/ request.method = "POST" /\ request.pathname[1] = "/api/media"
\* The tokens the request carries, in auth_token cookies or in the
\* Authorization header.
CarriedTokens(request) ==
  UNION {{cookieHeader[n].value :
            n \in {m \in 1..Len(cookieHeader) :
                     cookieHeader[m].name = "auth_token"}} :
           cookieHeader \in request.cookie}
  \cup {header[2] : header \in request.authorization}
StoresChanged == posts # out.db \/ media # out.bucket

AcceptPosts(i) ==
  {req[i].calls[n] : n \in {m \in 1..Len(req[i].calls) :
                              req[i].calls[m].method = "POST"}}

\* The request target of a URL: its path and its query string.
RequestTarget(url) == <<url.pathname, url.search>>

\* C28: the signature handleInbox makes describes the request it sends:
\* the body sent is the body whose SHA-256 is in Digest, Host is the
\* authority of the URL POSTed to, and the signed (request-target) is
\* "post" followed by the full request target, path and query string.
C28_SignatureDescribesRequest ==
  \A i \in Requests : \A call \in AcceptPosts(i) :
    LET url == UrlTable[call.url]
        signed == call.headers.Signature.signature.signed
    IN /\ call.headers.Digest = digest(call.body)
       /\ call.headers.Host = url.host
       /\ signed[1][1] = "(request-target)"
       /\ signed[1][2][1] = "post"
       /\ <<signed[1][2][2], "">> = RequestTarget(url)
       /\ signed[2] = <<"host", url.host>>
       /\ signed[4] = <<"digest", digest(call.body)>>

\* C29: the keyId of the Signature header handleInbox sends is the
\* publicKey.id of the document handleActor serves, and the private key
\* that signed and the public key of that document come from the same
\* account_keys row.
C29_KeyIdNamesActorKey ==
  ActorAnswered /\ out.response.status = 200 =>
    \A i \in Requests : \A call \in AcceptPosts(i) :
      LET signature == call.headers.Signature
          publicKey == out.response.body.publicKey
      IN /\ signature.keyId = publicKey.id
         /\ verify(pemDecode(publicKey.publicKeyPem),
                   signature.signature.signed, signature.signature)
         /\ \E row \in accountKeys :
              /\ signature.signature.key = getPrivateKey({row}, USER_ID)
              /\ publicKey.publicKeyPem = getPublicKeyPem({row}, USERNAME)

\* An Accept was signed and POSTed, and the actor document was served.
C29_Witness ==
  /\ ActorAnswered /\ out.response.status = 200
  /\ \E i \in Requests : AcceptPosts(i) # {}

\* The Note the single-post lookup serves for a post of the store the
\* answer in out was built from.
LookupNote(id) == handlePost([rows |-> out.store, seq |-> 0], id).body

\* C30: a post is the same Note wherever it is published: the Note in the
\* outbox Create, in the featured collection, in the single-post lookup
\* and in the content-negotiated post page have the same id,
\* attributedTo, content, published, to, cc and url, and dereferencing
\* the id gives that post's Note.
C30_SameNoteEverywhere ==
  \A note \in EmittedNotes :
    LET lookup == LookupNote(NotePostId(note))
    IN /\ note.id = lookup.id
       /\ note.attributedTo = lookup.attributedTo
       /\ note.content = lookup.content
       /\ note.published = lookup.published
       /\ note.to = lookup.to
       /\ note.cc = lookup.cc
       /\ note.url = lookup.url

====
